---- MODULE Spec2Model ----
(***************************************************************************)
(* A model of the FastAPI lesson corpus (Day01 .. Day07).  Every lesson    *)
(* file is its own program: loading the file runs its module level code    *)
(* (imports, app = FastAPI(), middleware and route decorators), and the    *)
(* resulting application then serves requests one at a time through        *)
(* middleware, routing, parameter resolution and validation, the handler   *)
(* body and response serialisation.                                        *)
(*                                                                         *)
(* Text is modelled by TLA+ strings, JSON values by tagged records, and    *)
(* numbers by a whole part w and a half flag h (the value w + h/2), so     *)
(* that non-integral decimals exist without floating point.                *)
(***************************************************************************)
EXTENDS Integers, Sequences, FiniteSets, TLC

VARIABLES lesson, app, nreq, req, pc, depth, matched, args, ret, resp, events,
          log, mode, todo, db, out, globals

vars ==
    <<lesson, app, nreq, req, pc, depth, matched, args, ret, resp, events, log,
      mode, todo, db, out, globals>>

(* What serving a request leaves alone, and what running a script does. *)
script == <<mode, todo, db, out>>

serving == <<nreq, req, depth, matched, args, ret, resp, events, globals>>

(* The number of requests one behaviour sends to the loaded application. *)
MaxRequests == 2

(* The number of calls an importing caller makes to a lesson's functions. *)
MaxCalls == 2

-----------------------------------------------------------------------------
(* Text helpers: Python str operations used by the lessons and by the      *)
(* framework's converters.                                                 *)

Char(s, i) == SubSeq(s, i, i)

(* The text of n copies of c. *)
RECURSIVE Rep(_, _)
Rep(c, n) ==
    IF n = 0 THEN ""
    ELSE IF n % 2 = 0 THEN LET half == Rep(c, n \div 2) IN half \o half
    ELSE c \o Rep(c, n - 1)

(* str.startswith(prefix) *)
StartsWith(s, p) == Len(s) >= Len(p) /\ SubSeq(s, 1, Len(p)) = p

Digits == {"0", "1", "2", "3", "4", "5", "6", "7", "8", "9"}

DigitVal(c) ==
    CASE c = "0" -> 0 [] c = "1" -> 1 [] c = "2" -> 2 [] c = "3" -> 3
      [] c = "4" -> 4 [] c = "5" -> 5 [] c = "6" -> 6 [] c = "7" -> 7
      [] c = "8" -> 8 [] c = "9" -> 9

AllDigits(s) == Len(s) > 0 /\ \A i \in 1..Len(s) : Char(s, i) \in Digits

(* The text forms the int converter accepts: an optional sign and digits. *)
IsIntLiteral(s) ==
    /\ Len(s) > 0
    /\ IF Char(s, 1) \in {"-", "+"}
       THEN Len(s) > 1 /\ AllDigits(SubSeq(s, 2, Len(s)))
       ELSE AllDigits(s)

RECURSIVE ParseNat(_)
ParseNat(s) ==
    IF Len(s) = 0 THEN 0
    ELSE 10 * ParseNat(SubSeq(s, 1, Len(s) - 1)) + DigitVal(Char(s, Len(s)))

ParseInt(s) ==
    IF Char(s, 1) = "-" THEN 0 - ParseNat(SubSeq(s, 2, Len(s)))
    ELSE IF Char(s, 1) = "+" THEN ParseNat(SubSeq(s, 2, Len(s)))
    ELSE ParseNat(s)

-----------------------------------------------------------------------------
(* JSON values. *)

JNull == [t |-> "null"]
JStr(s) == [t |-> "str", s |-> s]
JNum(w, h) == [t |-> "num", w |-> w, h |-> h]
JInt(n) == JNum(n, 0)
JObj(f) == [t |-> "obj", f |-> f]
JList(q) == [t |-> "list", items |-> q]
JBool(b) == [t |-> "bool", b |-> b]
NoBody == [t |-> "absent"]

(* What a handler leaves when its body raises instead of returning. *)
Raised(exc) == [t |-> "raise", exc |-> exc]

EmptyMap == [k \in {} |-> JNull]

(* Python truthiness of a resolved value: None, "" and 0 are falsy. *)
Truthy(v) ==
    CASE v.t = "null" -> FALSE
      [] v.t = "str" -> Len(v.s) > 0
      [] v.t = "num" -> v.w # 0 \/ v.h # 0
      [] v.t = "bool" -> v.b
      [] OTHER -> TRUE

(* Numeric comparisons of w + h/2 against an integer bound. *)
NumGt(v, n) == v.w > n \/ (v.w = n /\ v.h = 1)
NumGe(v, n) == v.w >= n
NumLe(v, n) == v.w < n \/ (v.w = n /\ v.h = 0)
NumLt(v, n) == v.w < n

-----------------------------------------------------------------------------
(* Declarative records (pydantic BaseModel): a class is the sequence of    *)
(* its field declarations; a constraint is [op, n].                        *)

FldD(name, type, required, nullable, cons, default) ==
    [name |-> name, type |-> type, required |-> required,
     nullable |-> nullable, cons |-> cons, default |-> default]

(* A field whose default, if it has one, is None. *)
Fld(name, type, required, nullable, cons) ==
    FldD(name, type, required, nullable, cons, [t |-> "null"])

Con(op, n) == [op |-> op, n |-> n]

(* EmailStr: exactly one "@", a non-empty local part, and a domain of      *)
(* non-empty labels separated by at least one period.                      *)
EmailValid(s) ==
    LET n == Len(s)
        ats == {i \in 1..n : Char(s, i) = "@"}
    IN  /\ Cardinality(ats) = 1
        /\ LET a == CHOOSE i \in ats : TRUE
               dots == {i \in (a + 1)..n : Char(s, i) = "."}
           IN  /\ a > 1
               /\ dots # {}
               /\ \A i \in dots : i > a + 1 /\ i < n /\ (i + 1) \notin dots

(* Whether a JSON value has the declared field type (after the library's   *)
(* conversion: an integral number is an int, any number is a float).       *)
TypeOK(type, v) ==
    CASE type = "str" -> v.t = "str"
      [] type = "email" -> v.t = "str" /\ EmailValid(v.s)
      [] type = "float" -> v.t = "num"
      [] type = "int" -> v.t = "num" /\ v.h = 0
      [] type = "list_str" ->
             v.t = "list" /\ \A i \in 1..Len(v.items) : v.items[i].t = "str"
      [] type = "set_str" ->
             v.t = "list" /\ \A i \in 1..Len(v.items) : v.items[i].t = "str"
      [] type = "Image" ->
             /\ v.t = "obj" /\ {"url", "name"} \subseteq DOMAIN v.f
             /\ v.f.url.t = "str" /\ v.f.name.t = "str"
      [] OTHER -> FALSE

ConOK(c, v) ==
    CASE c.op = "min_length" -> Len(v.s) >= c.n
      [] c.op = "max_length" -> Len(v.s) <= c.n
      [] c.op = "gt" -> NumGt(v, c.n)
      [] c.op = "ge" -> NumGe(v, c.n)
      [] c.op = "le" -> NumLe(v, c.n)
      [] c.op = "lt" -> NumLt(v, c.n)

FieldOK(fd, obj) ==
    IF fd.name \notin DOMAIN obj THEN ~fd.required
    ELSE LET v == obj[fd.name]
         IN  IF v.t = "null" THEN fd.nullable
             ELSE TypeOK(fd.type, v) /\ \A c \in fd.cons : ConOK(c, v)

FieldNames(fields) == {fields[i].name : i \in 1..Len(fields)}

(* Validation of a JSON value against a class: undeclared keys are         *)
(* ignored, absent optional fields take their default None.                *)
ModelOK(fields, v) ==
    v.t = "obj" /\ \A i \in 1..Len(fields) : FieldOK(fields[i], v.f)

FieldByName(fields, n) ==
    fields[CHOOSE i \in 1..Len(fields) : fields[i].name = n]

ModelInstance(fields, v) ==
    JObj([n \in FieldNames(fields) |->
            IF n \in DOMAIN v.f THEN v.f[n] ELSE FieldByName(fields, n).default])

(* Serialisation under a declared response shape: only the fields of the   *)
(* response class are kept.                                                *)
FilterToModel(fields, v) ==
    JObj([n \in FieldNames(fields) |->
            IF n \in DOMAIN v.f THEN v.f[n] ELSE FieldByName(fields, n).default])

-----------------------------------------------------------------------------
(* Route and parameter declarations.                                       *)

Lit(s) == [kind |-> "lit", name |-> s]
Var(n) == [kind |-> "param", name |-> n]

(* A handler parameter: its annotation type ("int", "str" or "model" with  *)
(* the class's fields), the explicit marker (Path, Query, Body or none),   *)
(* Body(embed=...), whether it has no default, the default, the marker's   *)
(* constraints and the AfterValidator function (or "none").                *)
Param(name, type, fields, marker, embed, required, default, cons, after) ==
    [name |-> name, type |-> type, fields |-> fields, marker |-> marker,
     embed |-> embed, required |-> required, default |-> default,
     cons |-> cons, after |-> after, extra |-> "ignore", provider |-> "none"]

(* A parameter filled by a dependency: name: str = Depends(provider). *)
Depends(name, provider) ==
    [Param(name, "str", <<>>, "Depends", FALSE, FALSE, [t |-> "null"], {}, "none")
        EXCEPT !.provider = provider]

Scalar(name, type, required, default) ==
    Param(name, type, <<>>, "none", FALSE, required, default, {}, "none")

Model(name, fields) ==
    Param(name, "model", fields, "none", FALSE, TRUE, JNull, {}, "none")

(* A record class read from the query string, Annotated[cls, Query()],     *)
(* with the class's model_config. *)
QueryModel(name, fields, config) ==
    [Param(name, "model", fields, "Query", FALSE, TRUE, [t |-> "null"], {}, "none")
        EXCEPT !.extra = config.extra]

Route(method, path, handler, params, shaped, shape) ==
    [method |-> method, path |-> path, handler |-> handler, params |-> params,
     shaped |-> shaped, shape |-> shape, many |-> FALSE]

(* A route whose declared response shape is list[shape]. *)
RouteMany(method, path, handler, params, shape) ==
    [method |-> method, path |-> path, handler |-> handler, params |-> params,
     shaped |-> TRUE, shape |-> shape, many |-> TRUE]

PathParamNames(path) ==
    {path[i].name : i \in {j \in 1..Len(path) : path[j].kind = "param"}}

(* Where the framework reads a parameter from: a name that occurs in the   *)
(* path is a path parameter; an explicit marker decides otherwise; an      *)
(* unmarked scalar is a query parameter and an unmarked record the body.   *)
ParamLocation(path, p) ==
    IF p.name \in PathParamNames(path) THEN "path"
    ELSE IF p.marker = "Depends" THEN "depends"
    ELSE IF p.marker = "Header" THEN "header"
    ELSE IF p.marker = "Body" THEN "body"
    ELSE IF p.marker = "Query" THEN "query"
    ELSE IF p.type = "model" THEN "body"
    ELSE "query"

BodyParams(rt) ==
    SelectSeq(rt.params, LAMBDA p : ParamLocation(rt.path, p) = "body")

(* The body is an object keyed by parameter name when there are several    *)
(* body parameters or the single one asks for embedding.                   *)
EmbedBodyFields(rt) ==
    LET bp == BodyParams(rt)
    IN  Len(bp) > 1 \/ (Len(bp) = 1 /\ bp[1].embed)

-----------------------------------------------------------------------------
(* Requests: a method, the path as its segments ("/items/" is the segments *)
(* "items" and ""), the query string as ordered key/value pairs, and a     *)
(* JSON body or none.                                                      *)

Request(method, path, query, body) ==
    [method |-> method, path |-> path, query |-> query, body |-> body,
     headers |-> <<>>]

(* The request with the header lines h, each a <<name, value>> pair. *)
WithHeaders(rq, h) == [rq EXCEPT !.headers = h]

Get(path, query) == Request("GET", path, query, NoBody)

QueryHas(q, k) == \E i \in 1..Len(q) : q[i][1] = k

(* The value of the last occurrence of key k. *)
QueryGet(q, k) ==
    LET idx == {i \in 1..Len(q) : q[i][1] = k}
    IN  q[CHOOSE i \in idx : \A j \in idx : j <= i][2]

RECURSIVE PathText(_)
PathText(path) ==
    IF Len(path) = 0 THEN "" ELSE "/" \o Head(path) \o PathText(Tail(path))

(* Route matching: same method, same number of segments, literal segments  *)
(* equal and parameter segments non-empty.                                 *)
PathMatches(rt, rq) ==
    /\ Len(rt.path) = Len(rq.path)
    /\ \A i \in 1..Len(rt.path) :
          IF rt.path[i].kind = "lit" THEN rq.path[i] = rt.path[i].name
          ELSE Len(rq.path[i]) > 0

Matches(rt, rq) == PathMatches(rt, rq) /\ rt.method = rq.method

(* A router in which a later registration of the same path wins. *)
MatchRouteLast(routes, rq) ==
    LET hits == {i \in 1..Len(routes) : Matches(routes[i], rq)}
    IN  IF hits = {} THEN 0
        ELSE CHOOSE i \in hits : \A j \in hits : j <= i

(* The router walks its routes in registration order and takes the first   *)
(* full match; 0 when none matches.                                        *)
MatchRoute(routes, rq) ==
    LET hits == {i \in 1..Len(routes) : Matches(routes[i], rq)}
    IN  IF hits = {} THEN 0
        ELSE CHOOSE i \in hits : \A j \in hits : i <= j

PathValue(rt, rq, name) ==
    rq.path[CHOOSE i \in 1..Len(rt.path) :
                rt.path[i].kind = "param" /\ rt.path[i].name = name]

-----------------------------------------------------------------------------
(* Python helpers used by handler bodies.                                  *)

Max(a, b) == IF a > b THEN a ELSE b
Min(a, b) == IF a < b THEN a ELSE b

(* seq[lo:hi] with Python's treatment of negative and out-of-range         *)
(* indices.                                                                *)
SliceIndex(i, n) == IF i < 0 THEN Max(i + n, 0) ELSE Min(i, n)

PySlice(seq, lo, hi) ==
    LET n == Len(seq)
    IN  SubSeq(seq, SliceIndex(lo, n) + 1, SliceIndex(hi, n))

LowerChar(c) ==
    CASE c = "A" -> "a" [] c = "B" -> "b" [] c = "C" -> "c" [] c = "D" -> "d"
      [] c = "E" -> "e" [] c = "F" -> "f" [] c = "G" -> "g" [] c = "H" -> "h"
      [] c = "I" -> "i" [] c = "J" -> "j" [] c = "K" -> "k" [] c = "L" -> "l"
      [] c = "M" -> "m" [] c = "N" -> "n" [] c = "O" -> "o" [] c = "P" -> "p"
      [] c = "Q" -> "q" [] c = "R" -> "r" [] c = "S" -> "s" [] c = "T" -> "t"
      [] c = "U" -> "u" [] c = "V" -> "v" [] c = "W" -> "w" [] c = "X" -> "x"
      [] c = "Y" -> "y" [] c = "Z" -> "z" [] OTHER -> c

RECURSIVE Lower(_)
Lower(s) ==
    IF Len(s) = 0 THEN ""
    ELSE LowerChar(Char(s, 1)) \o Lower(SubSeq(s, 2, Len(s)))

(* s.replace(old, new) for single characters. *)
RECURSIVE ReplaceChar(_, _, _)
ReplaceChar(s, old, new) ==
    IF Len(s) = 0 THEN ""
    ELSE (IF Char(s, 1) = old THEN new ELSE Char(s, 1))
         \o ReplaceChar(SubSeq(s, 2, Len(s)), old, new)

(* sub in s *)
Contains(s, sub) ==
    \E i \in 1..(Len(s) + 1) :
        i + Len(sub) - 1 <= Len(s) /\ SubSeq(s, i, i + Len(sub) - 1) = sub

-----------------------------------------------------------------------------
(* Day02 lesson 3: the enumeration of the path parameter.                  *)

(* An enumeration with vgg as a fourth member. *)
ModelName_WithVgg == {"alexnet", "resnet", "lenet", "vgg"}

ModelName == {"alexnet", "resnet", "lenet"}

(* The values of an enumeration annotation. *)
EnumMembers(type) ==
    CASE type = "ModelName" -> ModelName
      [] OTHER -> {}

IsEnum(type) == type \in {"ModelName"}

-----------------------------------------------------------------------------
(* Day06 lesson 2: the provider of the dependency.  Text outside ASCII is  *)
(* written by its code points.                                             *)

ZhangSan == "U+5F20 U+4E09"

get_name == JStr(ZhangSan)

(* What calling the provider named f returns. *)
ProviderBody(f) ==
    CASE f = "get_name" -> get_name
      [] OTHER -> JNull

-----------------------------------------------------------------------------
(* A validator that lets every id through. *)
check_valid_id_Lenient(id) == [raised |-> FALSE, value |-> id]

(* Day02 lesson 11: the custom validator.  raised stands for ValueError.   *)

check_valid_id(id) ==
    IF ~(StartsWith(id, "isbn-") \/ StartsWith(id, "imdb-"))
    THEN [raised |-> TRUE, value |-> id]
    ELSE [raised |-> FALSE, value |-> id]

AfterOK(after, v) ==
    CASE after = "check_valid_id" -> ~check_valid_id(v.s).raised
      [] OTHER -> TRUE

-----------------------------------------------------------------------------
(* Parameter resolution and validation.                                    *)

Failed == [ok |-> FALSE, val |-> JNull]
Resolved(v) == [ok |-> TRUE, val |-> v]

(* The texts the bool converter accepts, compared without regard to case. *)
TrueTexts == {"1", "true", "t", "yes", "y", "on"}
FalseTexts == {"0", "false", "f", "no", "n", "off"}

IsBoolLiteral(s) == Lower(s) \in TrueTexts \cup FalseTexts

(* A path segment or query value: converted to the annotated type, then    *)
(* checked against the constraints and the AfterValidator.                 *)
ScalarResult(p, raw) ==
    LET v == CASE p.type = "int" -> JInt(ParseInt(raw))
               [] p.type = "bool" -> JBool(Lower(raw) \in TrueTexts)
               [] OTHER -> JStr(raw)
    IN  IF p.type = "int" /\ ~IsIntLiteral(raw) THEN Failed
        ELSE IF p.type = "bool" /\ ~IsBoolLiteral(raw) THEN Failed
        ELSE IF IsEnum(p.type) /\ raw \notin EnumMembers(p.type) THEN Failed
        ELSE IF (\A c \in p.cons : ConOK(c, v)) /\ AfterOK(p.after, v)
             THEN Resolved(v) ELSE Failed

BodyValue(p, v) ==
    IF p.type = "model"
    THEN IF ModelOK(p.fields, v) THEN Resolved(ModelInstance(p.fields, v)) ELSE Failed
    ELSE IF TypeOK(p.type, v) /\ \A c \in p.cons : ConOK(c, v)
         THEN Resolved(v) ELSE Failed

Missing(p) == IF p.required THEN Failed ELSE Resolved(p.default)

QueryKeys(q) == {q[i][1] : i \in 1..Len(q)}

(* A record class as the query parameter: every query key is handed to the *)
(* class, a declared int field converted from its text; with extra =       *)
(* "forbid" an undeclared key fails the validation.                        *)
QueryModelResult(p, rq) ==
    LET keys == QueryKeys(rq.query)
        raw(k) == QueryGet(rq.query, k)
        isInt(k) == k \in FieldNames(p.fields) /\ FieldByName(p.fields, k).type = "int"
        obj == JObj([k \in keys |->
                        IF isInt(k) /\ IsIntLiteral(raw(k)) THEN JInt(ParseInt(raw(k)))
                        ELSE JStr(raw(k))])
    IN  IF ModelOK(p.fields, obj)
             /\ (p.extra = "forbid" => keys \subseteq FieldNames(p.fields))
        THEN Resolved(ModelInstance(p.fields, obj))
        ELSE Failed

(* Header(): the header name is the parameter name with underscores turned *)
(* into hyphens; header names compare without regard to case.              *)
HeaderAlias(name) == ReplaceChar(name, "_", "-")

(* request.headers.getlist(name): the value of every header line of that   *)
(* name, in order, each line's value as it stands.                         *)
HeaderGetList(headers, name) ==
    LET lines == SelectSeq(headers, LAMBDA h : Lower(h[1]) = Lower(name))
    IN  [i \in 1..Len(lines) |-> lines[i][2]]

(* A header parameter of type list[str]: the list of the lines' values. *)
HeaderResult(p, rq) ==
    LET values == HeaderGetList(rq.headers, HeaderAlias(p.name))
    IN  IF Len(values) = 0 THEN Missing(p)
        ELSE Resolved(JList([i \in 1..Len(values) |-> JStr(values[i])]))

ResolveParam(rt, p, rq) ==
    LET loc == ParamLocation(rt.path, p)
    IN  CASE loc = "path" -> ScalarResult(p, PathValue(rt, rq, p.name))
          [] loc = "query" /\ p.type = "model" -> QueryModelResult(p, rq)
          [] loc = "query" ->
               IF QueryHas(rq.query, p.name)
               THEN ScalarResult(p, QueryGet(rq.query, p.name))
               ELSE Missing(p)
          [] loc = "depends" -> Resolved(ProviderBody(p.provider))
          [] loc = "header" -> HeaderResult(p, rq)
          [] loc = "body" ->
               IF EmbedBodyFields(rt)
               THEN IF rq.body.t = "obj" /\ p.name \in DOMAIN rq.body.f
                    THEN BodyValue(p, rq.body.f[p.name])
                    ELSE Missing(p)
               ELSE IF rq.body.t = "absent" THEN Missing(p)
                    ELSE BodyValue(p, rq.body)

(* A resolution that calls no provider. *)
Providers_None(rt) == <<>>

(* The providers a request to the route invokes, in parameter order. *)
Providers(rt) ==
    LET deps == SelectSeq(rt.params, LAMBDA p : p.marker = "Depends")
    IN  [i \in 1..Len(deps) |-> deps[i].provider]

ParamNames(rt) == {rt.params[i].name : i \in 1..Len(rt.params)}

ParamByName(rt, n) ==
    rt.params[CHOOSE i \in 1..Len(rt.params) : rt.params[i].name = n]

ValidationOK(rt, rq) ==
    \A i \in 1..Len(rt.params) : ResolveParam(rt, rt.params[i], rq).ok

ResolvedArgs(rt, rq) ==
    [n \in ParamNames(rt) |-> ResolveParam(rt, ParamByName(rt, n), rq).val]

-----------------------------------------------------------------------------
(* Day02 lesson 2: static route before dynamic route.                      *)

read_user_me == JObj([user_id |-> JStr("the current user")])

read_user(user_id) == JObj([user_id |-> user_id])

(* The order the lesson warns against: the dynamic route first. *)
Module_D02_02_DynamicFirst ==
    [syntax_ok |-> TRUE, bound |-> {"FastAPI"}, used |-> {"FastAPI"},
     middleware |-> <<>>,
     routes |-> <<
        Route("GET", <<Lit("users"), Var("user_id")>>, "read_user",
              <<Scalar("user_id", "str", TRUE, JNull)>>, FALSE, <<>>),
        Route("GET", <<Lit("users"), Lit("me")>>, "read_user_me", <<>>, FALSE, <<>>) >>]

Module_D02_02 ==
    [syntax_ok |-> TRUE, bound |-> {"FastAPI"}, used |-> {"FastAPI"},
     middleware |-> <<>>,
     routes |-> <<
        Route("GET", <<Lit("users"), Lit("me")>>, "read_user_me", <<>>, FALSE, <<>>),
        Route("GET", <<Lit("users"), Var("user_id")>>, "read_user",
              <<Scalar("user_id", "str", TRUE, JNull)>>, FALSE, <<>>) >>]

-----------------------------------------------------------------------------
(* Day02 lesson 3: a path parameter of enumeration type.                   *)

get_model(model_name) ==
    IF model_name = JStr("alexnet")
    THEN JObj([model_name |-> model_name, message |-> JStr("Deep Learning FTW!")])
    ELSE IF model_name.s = "lenet"
    THEN JObj([model_name |-> model_name, message |-> JStr("LeCNN all the images")])
    ELSE JObj([model_name |-> model_name, message |-> JStr("Have some residuals")])

Module_D02_03 ==
    [syntax_ok |-> TRUE, bound |-> {"Enum", "FastAPI"}, used |-> {"Enum", "FastAPI"},
     middleware |-> <<>>,
     routes |-> <<
        Route("GET", <<Lit("models"), Var("model_name")>>, "get_model",
              <<Scalar("model_name", "ModelName", TRUE, JNull)>>, FALSE, <<>>) >>]

-----------------------------------------------------------------------------
(* Day02 lesson 5: query parameters with defaults; two handlers on the     *)
(* same method and path.                                                   *)

fake_items_db ==
    << JObj([item_name |-> JStr("Foo")]),
       JObj([item_name |-> JStr("Bar")]),
       JObj([item_name |-> JStr("Baz")]) >>

(* The handlers read the list the module level name is bound to when they *)
(* run (globals).                                                          *)

(* The slice with limit taken as the end index. *)
read_items_D02_05_NoOffset(skip, limit) ==
    JList(PySlice(globals.fake_items_db, skip.w, limit.w))

read_items_D02_05(skip, limit) ==
    JList(PySlice(globals.fake_items_db, skip.w, skip.w + limit.w))

(* The handler with the test `q is not None` in place of `if q:`. *)
read_item_D02_05_IsNotNone(q) ==
    IF q # JNull THEN JObj([q |-> q]) ELSE JObj([q |-> JStr("Not found")])

read_item_D02_05(q) ==
    IF Truthy(q) THEN JObj([q |-> q]) ELSE JObj([q |-> JStr("Not found")])

(* The filter applied to the whole fixture and the slice taken after it. *)
read_items_correct_FilterFirst(skip, limit, q) ==
    IF Truthy(q)
    THEN JObj([q |-> q,
               items |-> JList(PySlice(SelectSeq(globals.fake_items_db,
                   LAMBDA item : Contains(Lower(item.f.item_name.s), Lower(q.s))),
                   skip.w, skip.w + limit.w))])
    ELSE JObj([items |-> JList(PySlice(globals.fake_items_db, skip.w, skip.w + limit.w))])

read_items_correct(skip, limit, q) ==
    LET items == PySlice(globals.fake_items_db, skip.w, skip.w + limit.w)
    IN  IF Truthy(q)
        THEN JObj([q |-> q,
                   items |-> JList(SelectSeq(items,
                       LAMBDA item : Contains(Lower(item.f.item_name.s), Lower(q.s))))])
        ELSE JObj([items |-> JList(items)])

Module_D02_05 ==
    [syntax_ok |-> TRUE, bound |-> {"FastAPI"}, used |-> {"FastAPI"},
     middleware |-> <<>>,
     routes |-> <<
        Route("GET", <<Lit("items"), Lit("")>>, "read_items",
              <<Scalar("skip", "int", FALSE, JInt(0)),
                Scalar("limit", "int", FALSE, JInt(10))>>, FALSE, <<>>),
        Route("GET", <<Lit("items"), Lit("")>>, "read_item",
              <<Scalar("q", "str", FALSE, JNull)>>, FALSE, <<>>),
        Route("GET", <<Lit("items"), Lit("correct"), Lit("")>>, "read_items_correct",
              <<Scalar("skip", "int", FALSE, JInt(0)),
                Scalar("limit", "int", FALSE, JInt(10)),
                Scalar("q", "str", FALSE, JNull)>>, FALSE, <<>>) >>]

-----------------------------------------------------------------------------
(* Day02 lesson 6: a text path parameter converted by the handler itself,  *)
(* beside two query parameters.                                            *)

(* s.strip() for blanks. *)
RECURSIVE Strip(_)
Strip(s) ==
    IF Len(s) > 0 /\ Char(s, 1) = " " THEN Strip(SubSeq(s, 2, Len(s)))
    ELSE IF Len(s) > 0 /\ Char(s, Len(s)) = " " THEN Strip(SubSeq(s, 1, Len(s) - 1))
    ELSE s

(* The digits of an int() argument: single underscores may stand between   *)
(* two digits.                                                             *)
IsGroupedDigits(s) ==
    /\ Len(s) > 0
    /\ \A i \in 1..Len(s) :
          \/ Char(s, i) \in Digits
          \/ /\ Char(s, i) = "_"
             /\ 1 < i /\ i < Len(s)
             /\ Char(s, i - 1) \in Digits /\ Char(s, i + 1) \in Digits

Unsigned(s) == IF Len(s) > 0 /\ Char(s, 1) \in {"-", "+"} THEN SubSeq(s, 2, Len(s)) ELSE s

(* Whether int(s) returns, and what. *)
IntAccepts(s) == IsGroupedDigits(Unsigned(Strip(s)))

RECURSIVE DropChar(_, _)
DropChar(s, c) ==
    IF Len(s) = 0 THEN ""
    ELSE (IF Char(s, 1) = c THEN "" ELSE Char(s, 1)) \o DropChar(SubSeq(s, 2, Len(s)), c)

IntOf(s) ==
    LET n == ParseNat(DropChar(Unsigned(Strip(s)), "_"))
    IN  IF Char(Strip(s), 1) = "-" THEN 0 - n ELSE n

(* int(v) for a text or an integer v: whether it returns, and what. *)
IntReturns(v) == IF v.t = "str" THEN IntAccepts(v.s) ELSE v.t = "num" /\ v.h = 0

PyIntOf(v) == IF v.t = "str" THEN IntOf(v.s) ELSE v.w

Description == JStr("This is an amazing item that has a long description")

(* The dict the two handlers build: the base entries, q when it is true,   *)
(* the description when short is false.                                    *)
ItemDict(base, q, short) ==
    LET withQ == IF Truthy(q) THEN [q |-> q] @@ base ELSE base
    IN  JObj(IF ~short.b THEN [description |-> Description] @@ withQ ELSE withQ)

(* The handler with the description added in every mode. *)
read_item_D02_06_AlwaysLong(item_id, q, short) ==
    IF ~IntReturns(item_id) THEN Raised("ValueError")
    ELSE ItemDict([item_id |-> JInt(PyIntOf(item_id))], q, JBool(FALSE))

read_item_D02_06(item_id, q, short) ==
    IF ~IntReturns(item_id) THEN Raised("ValueError")
    ELSE ItemDict([item_id |-> JInt(PyIntOf(item_id))], q, short)

(* The lesson with item_id declared int. *)
Module_D02_06_IntId ==
    [syntax_ok |-> TRUE, bound |-> {"FastAPI"}, used |-> {"FastAPI"},
     middleware |-> <<>>,
     routes |-> <<
        Route("GET", <<Lit("items"), Var("item_id")>>, "read_item",
              <<Scalar("item_id", "int", TRUE, JNull),
                Scalar("q", "str", FALSE, JNull),
                Scalar("short", "bool", FALSE, JBool(FALSE))>>, FALSE, <<>>) >>]

Module_D02_06 ==
    [syntax_ok |-> TRUE, bound |-> {"FastAPI"}, used |-> {"FastAPI"},
     middleware |-> <<>>,
     routes |-> <<
        Route("GET", <<Lit("items"), Var("item_id")>>, "read_item",
              <<Scalar("item_id", "str", TRUE, JNull),
                Scalar("q", "str", FALSE, JNull),
                Scalar("short", "bool", FALSE, JBool(FALSE))>>, FALSE, <<>>) >>]

-----------------------------------------------------------------------------
(* Day02 lesson 7: two path parameters.                                    *)

read_user_item(user_id, item_id, q, short) ==
    ItemDict([item_id |-> item_id, owner_id |-> user_id], q, short)

Module_D02_07 ==
    [syntax_ok |-> TRUE, bound |-> {"FastAPI"}, used |-> {"FastAPI"},
     middleware |-> <<>>,
     routes |-> <<
        Route("GET", <<Lit("users"), Var("user_id"), Lit("items"), Var("item_id")>>,
              "read_user_item",
              <<Scalar("user_id", "int", TRUE, JNull),
                Scalar("item_id", "str", TRUE, JNull),
                Scalar("q", "str", FALSE, JNull),
                Scalar("short", "bool", FALSE, JBool(FALSE))>>, FALSE, <<>>) >>]

-----------------------------------------------------------------------------
(* Day02 lesson 9: length-constrained query parameter.  The file does not  *)
(* compile: lines 111-116 of its trailing notes start with // instead of   *)
(* the comment sign.                                                       *)

read_items_D02_09(q) ==
    LET results == [items |-> JList(<< JObj([item_id |-> JStr("Foo")]),
                                       JObj([item_id |-> JStr("Bar")]) >>)]
    IN  IF Truthy(q) THEN JObj([q |-> q] @@ results) ELSE JObj(results)

Module_D02_09 ==
    [syntax_ok |-> FALSE, bound |-> {"Annotated", "FastAPI", "Query"},
     used |-> {"Annotated", "FastAPI", "Query"},
     middleware |-> <<>>,
     routes |-> <<
        Route("GET", <<Lit("items"), Lit("")>>, "read_items",
              <<Param("q", "str", <<>>, "Query", FALSE, FALSE, JNull,
                      {Con("min_length", 3), Con("max_length", 50)}, "none")>>,
              FALSE, <<>>) >>]

-----------------------------------------------------------------------------
(* Day02 lesson 11: custom validator and random fallback.                  *)

data ==
    << <<"isbn-9781529046137", "The Hitchhiker's Guide to the Galaxy">>,
       <<"imdb-tt0371724", "The Hitchhiker's Guide to the Galaxy">>,
       <<"isbn-9781439512982", "Isaac Asimov: The Complete Stories, Vol. 2">> >>

(* dict.get(key): the value, or None. *)
DictGet(d, k) ==
    IF \E i \in 1..Len(d) : d[i][1] = k
    THEN JStr(d[CHOOSE i \in 1..Len(d) : d[i][1] = k][2])
    ELSE JNull

(* A fallback that always takes the first entry. *)
read_items_D02_11_First(id, rnd) ==
    IF Truthy(id)
    THEN JObj([id |-> id, name |-> DictGet(globals.data, id.s)])
    ELSE JObj([id |-> JStr(globals.data[1][1]), name |-> JStr(globals.data[1][2])])

(* The lookup written data[id] in place of data.get(id): KeyError for an   *)
(* id that is not a key.                                                   *)
read_items_D02_11_Subscript(id, rnd) ==
    IF Truthy(id)
    THEN IF DictGet(globals.data, id.s) = JNull THEN Raised("KeyError")
         ELSE JObj([id |-> id, name |-> DictGet(globals.data, id.s)])
    ELSE JObj([id |-> JStr(globals.data[rnd][1]), name |-> JStr(globals.data[rnd][2])])

(* rnd is the index random.choice draws. *)
read_items_D02_11(id, rnd) ==
    IF Truthy(id)
    THEN JObj([id |-> id, name |-> DictGet(globals.data, id.s)])
    ELSE JObj([id |-> JStr(globals.data[rnd][1]), name |-> JStr(globals.data[rnd][2])])

Module_D02_11 ==
    [syntax_ok |-> TRUE, bound |-> {"Annotated", "FastAPI", "AfterValidator", "random"},
     used |-> {"Annotated", "FastAPI", "AfterValidator"},
     middleware |-> <<>>,
     routes |-> <<
        Route("GET", <<Lit("items"), Lit("")>>, "read_items",
              <<Param("id", "str", <<>>, "none", FALSE, FALSE, JNull, {},
                      "check_valid_id")>>, FALSE, <<>>) >>]

-----------------------------------------------------------------------------
(* Day02 lesson 12: numeric path constraint and a required query           *)
(* parameter.                                                              *)

read_items_D02_12(item_id, q) ==
    LET results == [item_id |-> item_id]
    IN  IF Truthy(q) THEN JObj([q |-> q] @@ results) ELSE JObj(results)

(* The path constraint declared ge=0. *)
Module_D02_12_GeZero ==
    [syntax_ok |-> TRUE, bound |-> {"Annotated", "FastAPI", "Path"},
     used |-> {"Annotated", "FastAPI", "Path"},
     middleware |-> <<>>,
     routes |-> <<
        Route("GET", <<Lit("items"), Var("item_id")>>, "read_items",
              <<Param("item_id", "int", <<>>, "Path", FALSE, TRUE, JNull,
                      {Con("ge", 0)}, "none"),
                Scalar("q", "str", TRUE, JNull)>>, FALSE, <<>>) >>]

Module_D02_12 ==
    [syntax_ok |-> TRUE, bound |-> {"Annotated", "FastAPI", "Path"},
     used |-> {"Annotated", "FastAPI", "Path"},
     middleware |-> <<>>,
     routes |-> <<
        Route("GET", <<Lit("items"), Var("item_id")>>, "read_items",
              <<Param("item_id", "int", <<>>, "Path", FALSE, TRUE, JNull,
                      {Con("ge", 1)}, "none"),
                Scalar("q", "str", TRUE, JNull)>>, FALSE, <<>>) >>]

-----------------------------------------------------------------------------
(* Day03 lesson 1: a record class as the query parameters, undeclared keys *)
(* forbidden.                                                              *)

(* A configuration that ignores undeclared keys. *)
Filter_model_config_Ignore == [extra |-> "ignore"]

Filter_model_config == [extra |-> "forbid"]

Filter ==
    << Fld("name", "str", FALSE, TRUE, {}),
       Fld("age", "int", FALSE, TRUE, {}) >>

read_root(filter_query) == filter_query

Module_D03_01 ==
    [syntax_ok |-> TRUE, bound |-> {"Annotated", "FastAPI", "Query", "BaseModel"},
     used |-> {"Annotated", "FastAPI", "Query", "BaseModel"},
     middleware |-> <<>>,
     routes |-> <<
        Route("GET", <<Lit("items"), Lit("")>>, "read_root",
              <<QueryModel("filter_query", Filter, Filter_model_config)>>,
              FALSE, <<>>) >>]

-----------------------------------------------------------------------------
(* Day03 lesson 4: two body records plus a scalar marked Body().           *)

Item_D03_04 ==
    << Fld("name", "str", TRUE, FALSE, {}),
       Fld("description", "str", FALSE, TRUE, {}),
       Fld("price", "float", TRUE, FALSE, {}),
       Fld("tax", "float", FALSE, TRUE, {}) >>

User_D03_04 ==
    << Fld("username", "str", TRUE, FALSE, {}),
       Fld("full_name", "str", FALSE, TRUE, {}) >>

update_item_D03_04(item_id, item, user, importance) ==
    JObj([item_id |-> item_id, item |-> item, user |-> user,
          importance |-> importance])

(* importance without the Body() marker. *)
Params_D03_04_Unmarked ==
    << Scalar("item_id", "int", TRUE, JNull),
       Model("item", Item_D03_04),
       Model("user", User_D03_04),
       Scalar("importance", "int", TRUE, JNull) >>

Params_D03_04 ==
    << Scalar("item_id", "int", TRUE, JNull),
       Model("item", Item_D03_04),
       Model("user", User_D03_04),
       Param("importance", "int", <<>>, "Body", FALSE, TRUE, JNull, {}, "none") >>

Module_D03_04 ==
    [syntax_ok |-> TRUE, bound |-> {"Annotated", "Body", "FastAPI", "BaseModel"},
     used |-> {"Annotated", "Body", "FastAPI", "BaseModel"},
     middleware |-> <<>>,
     routes |-> <<
        Route("PUT", <<Lit("items"), Var("item_id")>>, "update_item",
              Params_D03_04, FALSE, <<>>) >>]

-----------------------------------------------------------------------------
(* Day03 lesson 5: a single body record under Body(embed=True).            *)

Item_D03_05 ==
    << Fld("name", "str", TRUE, FALSE, {}),
       Fld("description", "str", FALSE, TRUE, {}),
       Fld("price", "float", TRUE, FALSE, {}),
       Fld("tax", "float", FALSE, TRUE, {}) >>

update_item_D03_05(item_id, item) == JObj([item_id |-> item_id, item |-> item])

Params_D03_05 ==
    << Scalar("item_id", "int", TRUE, JNull),
       Param("item", "model", Item_D03_05, "Body", TRUE, TRUE, JNull, {}, "none") >>

Module_D03_05 ==
    [syntax_ok |-> TRUE, bound |-> {"Annotated", "Body", "FastAPI", "BaseModel"},
     used |-> {"Annotated", "Body", "FastAPI", "BaseModel"},
     middleware |-> <<>>,
     routes |-> <<
        Route("PUT", <<Lit("items"), Var("item_id")>>, "update_item",
              Params_D03_05, FALSE, <<>>) >>]

-----------------------------------------------------------------------------
(* Day04 lesson 1: field constraints.                                      *)

(* price declared ge=0 instead of gt=0. *)
Item_D04_01_PriceGe ==
    << Fld("name", "str", TRUE, FALSE,
           {Con("min_length", 1), Con("max_length", 100)}),
       Fld("description", "str", FALSE, TRUE, {Con("max_length", 500)}),
       Fld("price", "float", TRUE, FALSE, {Con("ge", 0), Con("le", 1000000)}),
       Fld("tax", "float", FALSE, TRUE, {Con("ge", 0), Con("le", 100)}) >>

Item_D04_01 ==
    << Fld("name", "str", TRUE, FALSE,
           {Con("min_length", 1), Con("max_length", 100)}),
       Fld("description", "str", FALSE, TRUE, {Con("max_length", 500)}),
       Fld("price", "float", TRUE, FALSE, {Con("gt", 0), Con("le", 1000000)}),
       Fld("tax", "float", FALSE, TRUE, {Con("ge", 0), Con("le", 100)}) >>

create_item(item_id, item) == JObj([item_id |-> item_id, item |-> item])

Params_D04_01 ==
    << Scalar("item_id", "int", TRUE, JNull),
       Param("item", "model", Item_D04_01, "Body", TRUE, TRUE, JNull, {}, "none") >>

Module_D04_01 ==
    [syntax_ok |-> TRUE,
     bound |-> {"Annotated", "Body", "FastAPI", "BaseModel", "Field"},
     used |-> {"Annotated", "Body", "FastAPI", "BaseModel", "Field"},
     middleware |-> <<>>,
     routes |-> <<
        Route("PUT", <<Lit("items"), Var("item_id")>>, "create_item",
              Params_D04_01, FALSE, <<>>) >>]

-----------------------------------------------------------------------------
(* Day03 lesson 3: two body records.  The file imports only BaseModel and  *)
(* then calls FastAPI().                                                   *)

Item_D03_03 ==
    << Fld("name", "str", TRUE, FALSE, {}),
       Fld("description", "str", FALSE, TRUE, {}),
       Fld("price", "float", TRUE, FALSE, {}),
       Fld("tax", "float", FALSE, TRUE, {}) >>

User_D03_03 ==
    << Fld("username", "str", TRUE, FALSE, {}),
       Fld("full_name", "str", FALSE, TRUE, {}) >>

update_item_D03_03(item_id, item, user) ==
    JObj([item_id |-> item_id, item |-> item, user |-> user])

Module_D03_03 ==
    [syntax_ok |-> TRUE, bound |-> {"BaseModel"}, used |-> {"BaseModel", "FastAPI"},
     middleware |-> <<>>,
     routes |-> <<
        Route("PUT", <<Lit("items"), Var("item_id")>>, "update_item",
              << Scalar("item_id", "int", TRUE, JNull),
                 Model("item", Item_D03_03),
                 Model("user", User_D03_03) >>, FALSE, <<>>) >>]

-----------------------------------------------------------------------------
(* Day04 lesson 2: a record with a set of tags and a nested image.  The    *)
(* file imports only BaseModel and then calls FastAPI().                   *)

Item_D04_02 ==
    << Fld("name", "str", TRUE, FALSE, {}),
       Fld("description", "str", FALSE, TRUE, {}),
       Fld("price", "float", TRUE, FALSE, {}),
       Fld("tax", "float", FALSE, TRUE, {}),
       FldD("tags", "set_str", FALSE, FALSE, {}, [t |-> "list", items |-> <<>>]),
       Fld("image", "Image", FALSE, TRUE, {}) >>

update_item_D04_02(item_id, item) == JObj([item_id |-> item_id, item |-> item])

Module_D04_02 ==
    [syntax_ok |-> TRUE, bound |-> {"BaseModel"}, used |-> {"BaseModel", "FastAPI"},
     middleware |-> <<>>,
     routes |-> <<
        Route("PUT", <<Lit("items"), Var("item_id")>>, "update_item",
              << Scalar("item_id", "int", TRUE, JNull),
                 Model("item", Item_D04_02) >>, FALSE, <<>>) >>]

-----------------------------------------------------------------------------
(* Day04 lesson 6: a single body record at the top level of the body.  The *)
(* file imports only BaseModel and then calls FastAPI().                   *)

Item_D04_06 ==
    << Fld("name", "str", TRUE, FALSE, {}),
       Fld("description", "str", FALSE, TRUE, {}),
       Fld("price", "float", TRUE, FALSE, {}),
       Fld("tax", "float", FALSE, TRUE, {}) >>

update_item_D04_06(item_id, item) == JObj([item_id |-> item_id, item |-> item])

Params_D04_06 ==
    << Scalar("item_id", "int", TRUE, JNull),
       Model("item", Item_D04_06) >>

Module_D04_06 ==
    [syntax_ok |-> TRUE, bound |-> {"BaseModel"}, used |-> {"BaseModel", "FastAPI"},
     middleware |-> <<>>,
     routes |-> <<
        Route("PUT", <<Lit("items"), Var("item_id")>>, "update_item",
              Params_D04_06, FALSE, <<>>) >>]

-----------------------------------------------------------------------------
(* Day05 lesson 2: a header that may occur several times.                  *)

read_items_D05_02(x_token) == JObj([k \in {"X-Token values"} |-> x_token])

Module_D05_02 ==
    [syntax_ok |-> TRUE, bound |-> {"Annotated", "FastAPI", "Header"},
     used |-> {"Annotated", "FastAPI", "Header"},
     middleware |-> <<>>,
     routes |-> <<
        Route("GET", <<Lit("items"), Lit("")>>, "read_items",
              <<Param("x_token", "list_str", <<>>, "Header", FALSE, FALSE, JNull,
                      {}, "none")>>, FALSE, <<>>) >>]

-----------------------------------------------------------------------------
(* Day05 lesson 4: the response shape given by the return annotation.  The *)
(* file imports only BaseModel and then calls FastAPI().                   *)

Item_D05_04 ==
    << Fld("name", "str", TRUE, FALSE, {}),
       Fld("description", "str", FALSE, TRUE, {}),
       Fld("price", "float", TRUE, FALSE, {}),
       Fld("tax", "float", FALSE, TRUE, {}),
       FldD("tags", "list_str", FALSE, FALSE, {}, JList(<<>>)) >>

create_item_D05_04(item) == item

(* The handler builds Item instances. *)
read_items_D05_04 ==
    JList(<< ModelInstance(Item_D05_04,
                JObj([name |-> JStr("Portal Gun"), price |-> JInt(42)])),
             ModelInstance(Item_D05_04,
                JObj([name |-> JStr("Plumbus"), price |-> JInt(32)])) >>)

Module_D05_04 ==
    [syntax_ok |-> TRUE, bound |-> {"BaseModel"}, used |-> {"BaseModel", "FastAPI"},
     middleware |-> <<>>,
     routes |-> <<
        Route("POST", <<Lit("items"), Lit("")>>, "create_item",
              <<Model("item", Item_D05_04)>>, TRUE, Item_D05_04),
        RouteMany("GET", <<Lit("items"), Lit("")>>, "read_items", <<>>,
                  Item_D05_04) >>]

-----------------------------------------------------------------------------
(* Day05 lesson 5: the response shape given by response_model; the handler *)
(* is annotated Any and returns raw mappings.                              *)

Item_D05_05 ==
    << Fld("name", "str", TRUE, FALSE, {}),
       Fld("description", "str", FALSE, TRUE, {}),
       Fld("price", "float", TRUE, FALSE, {}),
       Fld("tax", "float", FALSE, TRUE, {}),
       FldD("tags", "list_str", FALSE, FALSE, {}, JList(<<>>)) >>

create_item_D05_05(item) == item

read_items_D05_05 ==
    JList(<< JObj([name |-> JStr("Portal Gun"), price |-> JInt(42)]),
             JObj([name |-> JStr("Plumbus"), price |-> JInt(32)]) >>)

Module_D05_05 ==
    [syntax_ok |-> TRUE, bound |-> {"Any", "FastAPI", "BaseModel"},
     used |-> {"Any", "FastAPI", "BaseModel"},
     middleware |-> <<>>,
     routes |-> <<
        Route("POST", <<Lit("items"), Lit("")>>, "create_item",
              <<Model("item", Item_D05_05)>>, TRUE, Item_D05_05),
        RouteMany("GET", <<Lit("items"), Lit("")>>, "read_items", <<>>,
                  Item_D05_05) >>]

-----------------------------------------------------------------------------
(* Day05 lesson 6: separate input and output records.                      *)

UserIn_D05_06 ==
    << Fld("username", "str", TRUE, FALSE, {}),
       Fld("password", "str", TRUE, FALSE, {}),
       Fld("email", "email", TRUE, FALSE, {}),
       Fld("full_name", "str", FALSE, TRUE, {}) >>

UserOut ==
    << Fld("username", "str", TRUE, FALSE, {}),
       Fld("email", "email", TRUE, FALSE, {}),
       Fld("full_name", "str", FALSE, TRUE, {}) >>

create_user_D05_06(user) == user

Module_D05_06 ==
    [syntax_ok |-> TRUE, bound |-> {"Any", "FastAPI", "BaseModel", "EmailStr"},
     used |-> {"Any", "FastAPI", "BaseModel", "EmailStr"},
     middleware |-> <<>>,
     routes |-> <<
        Route("POST", <<Lit("user"), Lit("")>>, "create_user",
              <<Model("user", UserIn_D05_06)>>, TRUE, UserOut) >>]

-----------------------------------------------------------------------------
(* Day05 lesson 7: the same through inheritance.  The file imports only    *)
(* BaseModel and EmailStr and then calls FastAPI().                        *)

BaseUser ==
    << Fld("username", "str", TRUE, FALSE, {}),
       Fld("email", "email", TRUE, FALSE, {}),
       Fld("full_name", "str", FALSE, TRUE, {}) >>

UserIn_D05_07 == BaseUser \o << Fld("password", "str", TRUE, FALSE, {}) >>

create_user_D05_07(user) == user

Module_D05_07 ==
    [syntax_ok |-> TRUE, bound |-> {"BaseModel", "EmailStr"},
     used |-> {"BaseModel", "EmailStr", "FastAPI"},
     middleware |-> <<>>,
     routes |-> <<
        Route("POST", <<Lit("user"), Lit("")>>, "create_user",
              <<Model("user", UserIn_D05_07)>>, TRUE, BaseUser) >>]

-----------------------------------------------------------------------------
(* Day06 lesson 1: two http middlewares around one route.                  *)

Event(by, phase, info) == [by |-> by, phase |-> phase, info |-> info]

(* What a middleware prints before it awaits call_next. *)
MiddlewarePre(name, rq) ==
    IF name = "middleware1" THEN Event(name, "pre", PathText(rq.path))
    ELSE Event(name, "pre", rq.method)

(* What a middleware prints once call_next has returned. *)
MiddlewarePost(name) == Event(name, "post", "")

get_items(itemid) == IF Truthy(itemid) THEN JStr("hello") ELSE JStr("nihao")

Module_D06_01 ==
    [syntax_ok |-> TRUE, bound |-> {"FastAPI"}, used |-> {"FastAPI"},
     middleware |-> <<"middleware1", "middleware2">>,
     routes |-> <<
        Route("GET", <<Lit("items"), Var("itemid")>>, "get_items",
              <<Scalar("itemid", "int", TRUE, JNull)>>, FALSE, <<>>) >>]

-----------------------------------------------------------------------------
(* The SQLite file of the table lessons: the rows of each table that       *)
(* exists, the journal mode, and the rows written by a transaction that is *)
(* still open.  A nullable column holds a JSON value.                      *)

EmptyRows == [t \in {} |-> <<>>]

Database(rows, journal_mode) ==
    [rows |-> rows, journal_mode |-> journal_mode, pending |-> <<>>]

(* No file yet: connecting creates an empty database. *)
NoDatabase == Database(EmptyRows, "delete")

HasTable(d, t) == t \in DOMAIN d.rows

(* metadata.create_all(engine): creates the tables that are missing. *)
CreateAll(d, tables) ==
    [d EXCEPT !.rows = [t \in (DOMAIN d.rows) \cup tables |->
                          IF t \in DOMAIN d.rows THEN d.rows[t] ELSE <<>>]]

(* The key an INTEGER PRIMARY KEY column gets on insert: one more than the *)
(* largest key of the table.                                               *)
NextId(rows) ==
    IF Len(rows) = 0 THEN 1
    ELSE (CHOOSE m \in {rows[i].id : i \in 1..Len(rows)} :
              \A i \in 1..Len(rows) : rows[i].id <= m) + 1

(* INSERT of the column values vals (a record without id). *)
InsertRow(d, t, vals) ==
    [d EXCEPT !.rows[t] = Append(@, [id |-> NextId(@)] @@ vals)]

(* A call of a module level function. *)
Call(fn, arguments) == [fn |-> fn, args |-> arguments]

(* The call sequences of at most n calls over the calls cs. *)
CallSequences(cs, n) == UNION {[1..k -> cs] : k \in 1..n}

-----------------------------------------------------------------------------
(* Day06 lesson 5: the Student and Course tables and their join.           *)

Student(id, name, age) == [id |-> id, name |-> name, age |-> age]

Course(id, name, stu_id) == [id |-> id, name |-> name, stu_id |-> stu_id]

Tables_D06_05 == {"student", "course"}

create_db_and_tables_D06_05(d) == CreateAll(d, Tables_D06_05)

(* Both rows are added and committed, then each is refreshed and printed. *)
create_student(d) ==
    LET d1 == InsertRow(d, "student", [name |-> "liming", age |-> 18])
        d2 == InsertRow(d1, "student", [name |-> "zhangsan", age |-> 19])
        n == Len(d2.rows["student"])
    IN  [db |-> d2, printed |-> SubSeq(d2.rows["student"], n - 1, n)]

create_course(d) ==
    LET d1 == InsertRow(d, "course", [name |-> "math", stu_id |-> JInt(1)])
        d2 == InsertRow(d1, "course", [name |-> "chinese", stu_id |-> JInt(2)])
        n == Len(d2.rows["course"])
    IN  [db |-> d2, printed |-> SubSeq(d2.rows["course"], n - 1, n)]

IsLinked(stu, cou) == cou.stu_id = JInt(stu.id)

CoursesOf(stu, courses) == SelectSeq(courses, LAMBDA c : IsLinked(stu, c))

(* The join read with student as the outer table. *)
RECURSIVE JoinStudentOuter(_, _)
JoinStudentOuter(students, courses) ==
    IF Len(students) = 0 THEN <<>>
    ELSE LET cs == CoursesOf(Head(students), courses)
         IN  [i \in 1..Len(cs) |-> [student |-> Head(students), course |-> cs[i]]]
             \o JoinStudentOuter(Tail(students), courses)

(* The join read with course as the outer table. *)
JoinCourseOuter(students, courses) ==
    LET linked == SelectSeq(courses,
                    LAMBDA c : \E i \in 1..Len(students) : IsLinked(students[i], c))
    IN  [i \in 1..Len(linked) |->
            [student |-> students[CHOOSE j \in 1..Len(students) :
                                      IsLinked(students[j], linked[i])],
             course |-> linked[i]]]

(* A join that pairs every student with every course. *)
select_student_course_Cross(d, plan) ==
    LET students == d.rows["student"]
        courses == d.rows["course"]
    IN  [k \in 1..(Len(students) * Len(courses)) |->
            [student |-> students[((k - 1) \div Len(courses)) + 1],
             course |-> courses[((k - 1) % Len(courses)) + 1]]]

(* select(Student, Course).join(Course): the inner join on                 *)
(* course.stu_id = student.id; the statement has no ORDER BY, so the rows  *)
(* come in the order of the plan the engine takes.                         *)
select_student_course(d, plan) ==
    IF plan = "student_outer"
    THEN JoinStudentOuter(d.rows["student"], d.rows["course"])
    ELSE JoinCourseOuter(d.rows["student"], d.rows["course"])

Plans == {"student_outer", "course_outer"}

Main_D06_05 == << Call("select_student_course", <<>>) >>

Functions_D06_05 ==
    {Call(f, <<>>) : f \in {"create_db_and_tables", "create_student",
                             "create_course", "select_student_course"}}

Module_D06_05 ==
    [syntax_ok |-> TRUE,
     bound |-> {"init", "BaseModel", "Field", "Session", "SQLModel", "create_engine",
                "select", "table", "true"},
     used |-> {"SQLModel", "Field", "create_engine"},
     middleware |-> <<>>, routes |-> <<>>]

-----------------------------------------------------------------------------
(* Day01 lesson 2: the aged description.  Python values: None, an int, and *)
(* a float of whole part w and half flag h (the value w + h/2).            *)

PyNone == [t |-> "none"]
PyInt(n) == [t |-> "int", n |-> n]
PyFloat(w, h) == [t |-> "float", w |-> w, h |-> h]

DigitText(d) == Char("0123456789", d + 1)

RECURSIVE NatText(_)
NatText(n) == IF n < 10 THEN DigitText(n) ELSE NatText(n \div 10) \o DigitText(n % 10)

IntText(n) == IF n < 0 THEN "-" \o NatText(0 - n) ELSE NatText(n)

(* str(v) for the values above. *)
PyStr(v) ==
    CASE v.t = "none" -> "None"
      [] v.t = "int" -> IntText(v.n)
      [] v.t = "float" /\ v.h = 0 -> IntText(v.w) \o ".0"
      [] v.t = "float" /\ v.h = 1 /\ v.w >= 0 -> NatText(v.w) \o ".5"
      [] v.t = "float" /\ v.h = 1 /\ v.w < 0 -> "-" \o NatText(0 - v.w - 1) \o ".5"

(* The first definition (age: int). *)
get_name_with_age_int(name, age) == name \o " is this old: " \o PyStr(age)

(* The second definition (age: int | float). *)
get_name_with_age_union(name, age) == name \o " is this old: " \o PyStr(age)

(* The third definition (age: int | float | None = None), the one the name *)
(* is bound to once the module has run.                                    *)
get_name_with_age(name, age) ==
    IF age = PyNone THEN name \o " has no age"
    ELSE name \o " is this old: " \o PyStr(age)

(* The argument age of a call: the default when it is omitted. *)
AgeOf(call) == IF Len(call.args) >= 2 THEN call.args[2] ELSE PyNone

Main_D01_02 ==
    << Call("get_name_with_age", <<"John", PyInt(25)>>),
       Call("get_name_with_age", <<"Jane", PyFloat(25, 1)>>),
       Call("get_name_with_age", <<"Unknown", PyNone>>),
       Call("get_name_with_age", <<"Alice">>) >>

Functions_D01_02 ==
    {Call("get_name_with_age", <<name, age>>) :
        name \in {"John", "Unknown", ""},
        age \in {PyNone, PyInt(0), PyInt(25), PyInt(-3), PyFloat(0, 0),
                 PyFloat(25, 1), PyFloat(-1, 1)}}
    \cup {Call("get_name_with_age", <<name>>) : name \in {"John", "Unknown", ""}}

Module_D01_02 ==
    [syntax_ok |-> TRUE, bound |-> {}, used |-> {}, middleware |-> <<>>,
     routes |-> <<>>]

-----------------------------------------------------------------------------
(* Day01 lesson 1: the full name.  A text of this lesson is a sequence of  *)
(* characters; a character outside ASCII is written by its code point.     *)

Chars(s) == [i \in 1..Len(s) |-> Char(s, i)]

LowerLetters == "abcdefghijklmnopqrstuvwxyz"
UpperLetters == "ABCDEFGHIJKLMNOPQRSTUVWXYZ"

IsLowerLetter(c) == \E i \in 1..Len(LowerLetters) : Char(LowerLetters, i) = c
IsUpperLetter(c) == \E i \in 1..Len(UpperLetters) : Char(UpperLetters, i) = c

UpperChar(c) ==
    IF IsLowerLetter(c)
    THEN Char(UpperLetters, CHOOSE i \in 1..Len(LowerLetters) : Char(LowerLetters, i) = c)
    ELSE c

(* Greek capital sigma, small sigma and final small sigma; Latin capital I *)
(* with dot above; the combining dot above.                                *)
CapitalSigma == "U+03A3"
SmallSigma == "U+03C3"
FinalSigma == "U+03C2"
CapitalIDot == "U+0130"
CombiningDot == "U+0307"

(* The characters with the Unicode property Cased. *)
IsCased(c) ==
    \/ IsLowerLetter(c) \/ IsUpperLetter(c)
    \/ c \in {CapitalSigma, SmallSigma, FinalSigma, CapitalIDot}

(* The characters with the Unicode property Case_Ignorable. *)
IsCaseIgnorable(c) == c \in {"'", ".", CombiningDot}

(* The title-case mapping of one character. *)
ToTitleFull(c) ==
    CASE IsLowerLetter(c) -> << UpperChar(c) >>
      [] c \in {SmallSigma, FinalSigma} -> << CapitalSigma >>
      [] OTHER -> << c >>

(* The lower-case form of the capital sigma at position i of s, which      *)
(* follows a cased character: final when no cased character follows it     *)
(* after any case-ignorable ones.                                          *)
handle_capital_sigma(s, i) ==
    LET rest == SelectSeq(SubSeq(s, i + 1, Len(s)), LAMBDA c : ~IsCaseIgnorable(c))
    IN  IF Len(rest) = 0 \/ ~IsCased(rest[1]) THEN FinalSigma ELSE SmallSigma

(* The lower-case mapping of the character at position i of s. *)
lower_ucs4(s, i) ==
    CASE s[i] = CapitalSigma -> << handle_capital_sigma(s, i) >>
      [] s[i] = CapitalIDot -> << "i", CombiningDot >>
      [] OTHER -> << LowerChar(s[i]) >>

(* s.title() from position i on: a character after a cased one is          *)
(* lower-cased, any other is title-cased.                                  *)
RECURSIVE do_title(_, _)
do_title(s, i) ==
    IF i > Len(s) THEN <<>>
    ELSE (IF i > 1 /\ IsCased(s[i - 1]) THEN lower_ucs4(s, i) ELSE ToTitleFull(s[i]))
         \o do_title(s, i + 1)

title(s) == do_title(s, 1)

(* The function without the calls of title() (the slip the lesson's        *)
(* comment warns of).                                                      *)
get_full_name_Untitled(first_name, last_name) == first_name \o << " " >> \o last_name

get_full_name(first_name, last_name) == title(first_name) \o << " " >> \o title(last_name)

Main_D01_01 == << Call("get_full_name", << Chars("john"), Chars("doe") >>) >>

(* The texts a caller passes: ASCII names in several cases, and names with *)
(* the characters above.                                                   *)
AsciiNames ==
    {Chars(s) : s \in {"john", "JOHN", "o'neil", "O'NEIL", "jo hn", ""}}

GreekNames ==
    { << "o", CapitalSigma >>, << "o", SmallSigma >>, << "a", CapitalIDot, "b" >>,
      << CapitalSigma, "'", "s" >> }

Functions_D01_01 ==
    {Call("get_full_name", << f, Chars("doe") >>) : f \in AsciiNames \cup GreekNames}
    \cup {Call("get_full_name", << Chars("jane"), l >>) :
            l \in {Chars("SMITH"), Chars("smith"), << "o", CapitalSigma >>}}

Module_D01_01 ==
    [syntax_ok |-> TRUE, bound |-> {}, used |-> {}, middleware |-> <<>>,
     routes |-> <<>>]

-----------------------------------------------------------------------------
(* Day07 lesson 1: the synchronous engine, the user_account and address    *)
(* tables, and the driver.                                                 *)

User(id, name, fullname) == [id |-> id, name |-> name, fullname |-> fullname]

Tables_D07_01 == {"user_account", "address"}

(* A line of console output that is not a row. *)
Text(s) == [text |-> s]

(* PRAGMA journal_mode=WAL *)
SetJournalMode(d, m) == [d EXCEPT !.journal_mode = m]

(* insert(User).values(...) inside engine.begin(): the row, with its key,  *)
(* is written in the open transaction.                                     *)
InsertPending(d, t, vals) ==
    [d EXCEPT !.pending = Append(@, [table |-> t,
                                     row |-> [id |-> NextId(d.rows[t])] @@ vals])]

(* The scope ends without a commit (engine.connect() in place of           *)
(* engine.begin()): the open transaction is rolled back.                   *)
Commit_Rollback(d) == [d EXCEPT !.pending = <<>>]

(* The transaction commits: its rows become part of the tables. *)
RECURSIVE Commit(_)
Commit(d) ==
    IF Len(d.pending) = 0 THEN d
    ELSE LET p == Head(d.pending)
         IN  Commit([d EXCEPT !.rows[p.table] = Append(@, p.row),
                              !.pending = Tail(@)])

(* select(User).where(User.name == name) ... first(): the first matching   *)
(* row, or None.                                                           *)
FirstByName(rows, name) ==
    LET hits == SelectSeq(rows, LAMBDA r : r.name = name)
    IN  IF Len(hits) = 0 THEN Text("None") ELSE hits[1]

query_uesr1(d) == FirstByName(d.rows["user_account"], "spongebob")

query_users(d) == <<Text("Users in database:")>> \o d.rows["user_account"]

(* A driver that queries before it creates the user. *)
Main_D07_01_QueryFirst ==
    << Call("create_db_and_tables", <<>>), Call("query_uesr1", <<>>),
       Call("create_user", <<>>) >>

Main_D07_01 ==
    << Call("create_db_and_tables", <<>>), Call("create_user", <<>>),
       Call("query_uesr1", <<>>) >>

Functions_D07_01 ==
    {Call(f, <<>>) : f \in {"create_db_and_tables", "create_user", "query_users",
                             "query_uesr1"}}

Module_D07_01 ==
    [syntax_ok |-> TRUE,
     bound |-> {"List", "Optional", "Mapped", "mapped_column", "relationship",
                "DeclarativeBase", "ForeignKey", "String", "create_engine",
                "insert", "select", "text"},
     used |-> {"List", "Optional", "Mapped", "mapped_column", "relationship",
               "DeclarativeBase", "ForeignKey", "String", "create_engine"},
     middleware |-> <<>>, routes |-> <<>>]

-----------------------------------------------------------------------------
(* Day06 lesson 2: dependency injection.                                   *)

index(name) == JObj([name |-> name])

Module_D06_02 ==
    [syntax_ok |-> TRUE, bound |-> {"FastAPI", "Depends"},
     used |-> {"FastAPI", "Depends"},
     middleware |-> <<>>,
     routes |-> <<
        Route("GET", <<Lit("")>>, "index", <<Depends("name", "get_name")>>,
              FALSE, <<>>) >>]

-----------------------------------------------------------------------------
(* The lesson files and what the handler names of each stand for.          *)

Lessons ==
    {"D01_01", "D01_02", "D02_02", "D02_03", "D02_05", "D02_06", "D02_07", "D02_09", "D02_11", "D02_12", "D03_01", "D03_03", "D03_04", "D03_05",
     "D04_01", "D04_02", "D04_06", "D05_02",
     "D05_04", "D05_05", "D05_06", "D05_07", "D06_01", "D06_02",
     "D06_05", "D07_01"}

(* The lessons with routes whose handler functions are also called         *)
(* directly.                                                               *)
DirectlyCalled == {"D02_05"}

(* The direct calls of read_item: q omitted, None, or a text. *)
Functions_D02_05 ==
    {Call("read_item", << q >>) :
        q \in {JNull, JStr(""), JStr("hello"), JStr("0"), JStr(" "), JStr("Not found")}}
    \cup {Call("read_item", <<>>)}

(* The lessons that are scripts with a __main__ block and no routes. *)
Scripts == {"D01_01", "D01_02", "D06_05", "D07_01"}

ModuleDecl(l) ==
    CASE l = "D01_01" -> Module_D01_01
      [] l = "D01_02" -> Module_D01_02
      [] l = "D02_02" -> Module_D02_02
      [] l = "D02_03" -> Module_D02_03
      [] l = "D02_05" -> Module_D02_05
      [] l = "D02_06" -> Module_D02_06
      [] l = "D02_07" -> Module_D02_07
      [] l = "D02_09" -> Module_D02_09
      [] l = "D02_11" -> Module_D02_11
      [] l = "D02_12" -> Module_D02_12
      [] l = "D03_01" -> Module_D03_01
      [] l = "D03_03" -> Module_D03_03
      [] l = "D03_04" -> Module_D03_04
      [] l = "D03_05" -> Module_D03_05
      [] l = "D04_01" -> Module_D04_01
      [] l = "D04_02" -> Module_D04_02
      [] l = "D04_06" -> Module_D04_06
      [] l = "D05_02" -> Module_D05_02
      [] l = "D05_04" -> Module_D05_04
      [] l = "D05_05" -> Module_D05_05
      [] l = "D05_06" -> Module_D05_06
      [] l = "D05_07" -> Module_D05_07
      [] l = "D06_01" -> Module_D06_01
      [] l = "D06_02" -> Module_D06_02
      [] l = "D06_05" -> Module_D06_05
      [] l = "D07_01" -> Module_D07_01

(* The handler body of lesson l named h, applied to the resolved           *)
(* arguments a; rnd is the draw of random.choice.                          *)
HandlerBody(l, h, a, rnd) ==
    CASE l = "D02_02" /\ h = "read_user_me" -> read_user_me
      [] l = "D02_02" /\ h = "read_user" -> read_user(a.user_id)
      [] l = "D02_03" -> get_model(a.model_name)
      [] l = "D02_05" /\ h = "read_items" -> read_items_D02_05(a.skip, a.limit)
      [] l = "D02_05" /\ h = "read_item" -> read_item_D02_05(a.q)
      [] l = "D02_05" /\ h = "read_items_correct" ->
             read_items_correct(a.skip, a.limit, a.q)
      [] l = "D02_06" -> read_item_D02_06(a.item_id, a.q, a.short)
      [] l = "D02_07" -> read_user_item(a.user_id, a.item_id, a.q, a.short)
      [] l = "D02_09" -> read_items_D02_09(a.q)
      [] l = "D02_11" -> read_items_D02_11(a.id, rnd)
      [] l = "D02_12" -> read_items_D02_12(a.item_id, a.q)
      [] l = "D03_01" -> read_root(a.filter_query)
      [] l = "D03_03" -> update_item_D03_03(a.item_id, a.item, a.user)
      [] l = "D03_04" -> update_item_D03_04(a.item_id, a.item, a.user, a.importance)
      [] l = "D03_05" -> update_item_D03_05(a.item_id, a.item)
      [] l = "D04_01" -> create_item(a.item_id, a.item)
      [] l = "D04_02" -> update_item_D04_02(a.item_id, a.item)
      [] l = "D04_06" -> update_item_D04_06(a.item_id, a.item)
      [] l = "D05_02" -> read_items_D05_02(a.x_token)
      [] l = "D05_04" /\ h = "create_item" -> create_item_D05_04(a.item)
      [] l = "D05_04" /\ h = "read_items" -> read_items_D05_04
      [] l = "D05_05" /\ h = "create_item" -> create_item_D05_05(a.item)
      [] l = "D05_05" /\ h = "read_items" -> read_items_D05_05
      [] l = "D05_06" -> create_user_D05_06(a.user)
      [] l = "D05_07" -> create_user_D05_07(a.user)
      [] l = "D06_01" -> get_items(a.itemid)
      [] l = "D06_02" -> index(a.name)

-----------------------------------------------------------------------------
(* The module level data of a lesson.                                      *)

(* The names the module level code binds to data the handlers read. *)
ModuleGlobals(l) ==
    CASE l = "D02_05" -> [fake_items_db |-> fake_items_db]
      [] l = "D02_11" -> [data |-> data]
      [] OTHER -> EmptyMap

(* A read_items of Day02 lesson 5 that takes its page out of the list      *)
(* (fake_items_db.pop in place of the slice).                              *)
GlobalsAfter_Pop(l, h, g) ==
    IF l = "D02_05" /\ h = "read_items" /\ Len(g.fake_items_db) > 0
    THEN [g EXCEPT !.fake_items_db = Tail(@)]
    ELSE g

(* The module level data after the handler h has run: no handler assigns   *)
(* to a module level name (none has a global statement), and the           *)
(* operations applied to the fixtures (slicing, iteration in a             *)
(* comprehension, dict.get, list(data.items())) build new objects.         *)
GlobalsAfter(l, h, g) == g

-----------------------------------------------------------------------------
(* Application construction: what the decorators do at module load.        *)

(* Middleware kept in registration order, the first registered outermost. *)
AddMiddlewareInOrder(um, name) == Append(um, name)

(* app.middleware("http") puts the new middleware at the front of          *)
(* user_middleware; the first entry is the outermost layer of the stack.   *)
AddMiddleware(um, name) == <<name>> \o um

(* app.get / app.put / app.post append to the router's route list. *)
AddRoute(routes, rt) == Append(routes, rt)

RECURSIVE RegisterMiddleware(_)
RegisterMiddleware(decls) ==
    IF Len(decls) = 0 THEN <<>>
    ELSE AddMiddleware(RegisterMiddleware(SubSeq(decls, 1, Len(decls) - 1)),
                       decls[Len(decls)])

RECURSIVE RegisterRoutes(_)
RegisterRoutes(decls) ==
    IF Len(decls) = 0 THEN <<>>
    ELSE AddRoute(RegisterRoutes(SubSeq(decls, 1, Len(decls) - 1)),
                  decls[Len(decls)])

NoApp(state) == [state |-> state, user_middleware |-> <<>>, routes |-> <<>>]

(* Running the lesson file: a file that does not compile raises            *)
(* SyntaxError, a module level name that no import binds raises NameError, *)
(* and otherwise the application holds the registered middleware and       *)
(* routes.                                                                 *)
LoadResult(m) ==
    IF ~m.syntax_ok THEN NoApp("SyntaxError")
    ELSE IF ~(m.used \subseteq m.bound) THEN NoApp("NameError")
    ELSE [state |-> "ready",
          user_middleware |-> RegisterMiddleware(m.middleware),
          routes |-> RegisterRoutes(m.routes)]

-----------------------------------------------------------------------------
(* Responses.                                                              *)

NoResponse == [served |-> FALSE, status |-> 0, body |-> JNull]

Response(status, body) == [served |-> TRUE, status |-> status, body |-> body]

NotFound(routes, rq) ==
    IF \E i \in 1..Len(routes) : PathMatches(routes[i], rq)
    THEN Response(405, JObj([detail |-> JStr("Method Not Allowed")]))
    ELSE Response(404, JObj([detail |-> JStr("Not Found")]))

(* The diagnostics of a failed validation: one entry per offending         *)
(* parameter, with its location and name.                                  *)
ValidationErrors(rt, rq) ==
    LET bad == SelectSeq(rt.params, LAMBDA p : ~ResolveParam(rt, p, rq).ok)
    IN  [i \in 1..Len(bad) |->
            JObj([loc |-> JStr(ParamLocation(rt.path, bad[i])),
                  name |-> JStr(bad[i].name)])]

Unprocessable(rt, rq) ==
    Response(422, JObj([detail |-> JList(ValidationErrors(rt, rq))]))

(* The handler's return value as sent: filtered to the declared response   *)
(* shape when the route has one.                                           *)
SerializeResponse(rt, value) ==
    IF value.t = "raise" THEN Response(500, JStr("Internal Server Error"))
    ELSE IF ~rt.shaped THEN Response(200, value)
    ELSE IF rt.many
    THEN IF value.t = "list"
              /\ \A i \in 1..Len(value.items) : ModelOK(rt.shape, value.items[i])
         THEN Response(200, JList([i \in 1..Len(value.items) |->
                                     FilterToModel(rt.shape, value.items[i])]))
         ELSE Response(500, JStr("Internal Server Error"))
    ELSE IF ModelOK(rt.shape, value)
         THEN Response(200, FilterToModel(rt.shape, value))
         ELSE Response(500, JStr("Internal Server Error"))

-----------------------------------------------------------------------------
(* The requests sent to each lesson.  Absent marks a query key or a JSON   *)
(* key that the request does not carry.                                    *)

Absent == "<absent>"

QS(entries) == SelectSeq(entries, LAMBDA e : e[2] # Absent)

ObjOf(entries) ==
    LET present == {i \in 1..Len(entries) : entries[i][2].t # "absent"}
    IN  JObj([k \in {entries[i][1] : i \in present} |->
                entries[CHOOSE i \in present : entries[i][1] = k][2]])

Requests_D02_02 ==
    {Get(<<"users", seg>>, <<>>) : seg \in {"me", "123", "abc", "Me", "me2", "m", ""}}
    \cup {Get(<<"users", "me", "x">>, <<>>), Get(<<"users">>, <<>>)}

Requests_D02_03 ==
    {Get(<<"models", seg>>, <<>>) :
        seg \in {"alexnet", "resnet", "lenet", "vgg", "AlexNet", "lenet5", ""}}

Requests_D02_05 ==
    {Get(<<"items", "">>, QS(<< <<"skip", sk>>, <<"limit", lm>>, <<"q", q>> >>)) :
        sk \in {Absent, "0", "1", "2", "3", "-1", "x"},
        lm \in {Absent, "0", "1", "2", "10", "-1"},
        q \in {Absent, "foo"}}
    \cup
    {Get(<<"items", "correct", "">>,
         QS(<< <<"skip", sk>>, <<"limit", lm>>, <<"q", q>> >>)) :
        sk \in {Absent, "0", "1", "-1"},
        lm \in {Absent, "1", "2"},
        q \in {Absent, "", "ba", "FOO", "z"}}

Requests_D02_06 ==
    {Get(<<"items", seg>>, QS(<< <<"q", q>>, <<"short", sh>> >>)) :
        seg \in {"123", "-3", "1_0", " 7", "abc", "1.5"},
        q \in {Absent, "", "keyword"},
        sh \in {Absent, "true", "false", "1", "No", "maybe"}}

Requests_D02_07 ==
    {Get(<<"users", u, "items", seg>>, QS(<< <<"q", q>>, <<"short", sh>> >>)) :
        u \in {"123", "abc"},
        seg \in {"456", "abc"},
        q \in {Absent, "", "keyword"},
        sh \in {Absent, "true", "off", ""}}

Requests_D02_09 ==
    {Get(<<"items", "">>, QS(<< <<"q", q>> >>)) :
        q \in {Absent, "", "ab", "abc", "apple", Rep("a", 50), Rep("a", 51)}}

Requests_D02_11 ==
    {Get(<<"items", "">>, QS(<< <<"id", id>> >>)) :
        id \in {Absent, "", "invalid-id", "isbn", "ISBN-1", "imdb-", "isbn-0",
                "isbn-9781529046137", "imdb-tt0371724", "isbn-9781439512982"}}

Requests_D02_12 ==
    {Get(<<"items", seg>>, QS(<< <<"q", q>> >>)) :
        seg \in {"1", "0", "-1", "42", "abc", "1.5"},
        q \in {Absent, "", "test"}}

Requests_D03_01 ==
    {Get(<<"items", "">>,
         QS(<< <<"name", n>>, <<"age", a>>, <<"extra", x>>, <<"filter_query", f>> >>)) :
        n \in {Absent, "", "John"},
        a \in {Absent, "25", "-3", "abc", "", "2.5"},
        x \in {Absent, "xxx"},
        f \in {Absent, "John"}}

(* Item payloads with name and price, and payloads that are no Item. *)
Widget == ObjOf(<< <<"name", JStr("Widget")>>, <<"price", JNum(19, 1)>> >>)

ItemPayloads ==
    {ObjOf(<< <<"name", n>>, <<"description", d>>, <<"price", pr>>, <<"tax", tx>> >>) :
        n \in {NoBody, JStr("Widget"), JInt(7)},
        d \in {NoBody, JStr("A wonderful widget")},
        pr \in {NoBody, JNum(19, 1), JInt(-5), JStr("cheap")},
        tx \in {NoBody, JNull, JNum(1, 1)}}

UserPayloads ==
    {ObjOf(<< <<"username", u>>, <<"full_name", f>> >>) :
        u \in {NoBody, JStr("john_doe")}, f \in {NoBody, JStr("John Doe")}}

Requests_D03_04 ==
    {Request("PUT", <<"items", seg>>, QS(<< <<"importance", qi>> >>),
             ObjOf(<< <<"item", it>>, <<"user", us>>, <<"importance", im>> >>)) :
        seg \in {"123", "abc"},
        qi \in {Absent, "5"},
        it \in {NoBody, Widget, ObjOf(<< <<"name", JStr("Widget")>> >>)},
        us \in UserPayloads \cup {NoBody},
        im \in {NoBody, JInt(5), JNum(5, 1), JStr("high")}}
    \cup {Request("PUT", <<"items", "123">>, QS(<< <<"importance", qi>> >>), NoBody) :
            qi \in {Absent, "5"}}

(* Each payload at the top level of the body, and under the key "item". *)
EmbeddingRequests ==
    {Request("PUT", <<"items", seg>>, <<>>, b) :
        seg \in {"123", "abc"},
        b \in ItemPayloads \cup {ObjOf(<< <<"item", P>> >>) : P \in ItemPayloads}
              \cup {NoBody}}

Requests_D03_05 == EmbeddingRequests

Requests_D03_03 ==
    {Request("PUT", <<"items", seg>>, <<>>,
             ObjOf(<< <<"item", it>>, <<"user", us>> >>)) :
        seg \in {"123", "abc"}, it \in {NoBody, Widget}, us \in UserPayloads \cup {NoBody}}

Requests_D04_02 ==
    {Request("PUT", <<"items", seg>>, <<>>, b) :
        seg \in {"123", "abc"}, b \in ItemPayloads \cup {NoBody}}

Requests_D04_06 == EmbeddingRequests

Requests_D04_01 ==
    {Request("PUT", <<"items", "123">>, <<>>,
             ObjOf(<< <<"item",
                ObjOf(<< <<"name", n>>, <<"description", d>>,
                         <<"price", pr>>, <<"tax", tx>> >>)>> >>)) :
        n \in {NoBody, JStr(""), JStr("W"), JStr(Rep("n", 100)), JStr(Rep("n", 101))},
        d \in {NoBody, JNull, JStr(Rep("d", 500)), JStr(Rep("d", 501))},
        pr \in {NoBody, JInt(0), JNum(0, 1), JInt(-5), JNum(19, 1),
                JInt(1000000), JNum(1000000, 1)},
        tx \in {NoBody, JNull, JInt(0), JNum(-1, 1), JInt(100), JNum(100, 1)}}
    \cup {Request("PUT", <<"items", "123">>, <<>>, b) : b \in {Widget, NoBody}}

(* GET /items/ and POST /items/ with payloads with and without tags and an *)
(* undeclared key.                                                         *)
ItemListRequests ==
    {Get(<<"items", "">>, <<>>), Get(<<"items", "">>, << <<"limit", "1">> >>),
     Get(<<"items">>, <<>>)}
    \cup
    {Request("POST", <<"items", "">>, <<>>,
             ObjOf(<< <<"name", n>>, <<"price", pr>>, <<"tags", tg>>,
                      <<"internal_id", x>> >>)) :
        n \in {NoBody, JStr("Portal Gun")},
        pr \in {NoBody, JInt(42), JStr("cheap")},
        tg \in {NoBody, JList(<<>>), JList(<<JStr("gadget")>>), JList(<<JInt(1)>>),
                JStr("gadget")},
        x \in {NoBody, JInt(123)}}

(* The two wire forms of three tokens, and other header sets. *)
CommaJoined == << <<"X-Token", "token1, token2, token3">> >>

RepeatedLines ==
    << <<"X-Token", "token1">>, <<"X-Token", "token2">>, <<"X-Token", "token3">> >>

Requests_D05_02 ==
    {WithHeaders(Get(<<"items", "">>, <<>>), h) :
        h \in {<<>>, CommaJoined, RepeatedLines,
               << <<"X-Token", "single-token">> >>,
               << <<"x-token", "token1">>, <<"Accept", "*/*">>,
                  <<"X-TOKEN", "token2">> >>,
               << <<"X-Other", "token1">> >>,
               << <<"X_Token", "token1">> >>}}

Requests_D05_04 == ItemListRequests

Requests_D05_05 == ItemListRequests

UserRequests ==
    {Request("POST", <<"user", "">>, <<>>,
             ObjOf(<< <<"username", u>>, <<"password", pw>>,
                      <<"email", em>>, <<"full_name", f>> >>)) :
        u \in {NoBody, JStr("john")},
        pw \in {NoBody, JStr(""), JStr("secret"), JStr("hunter2")},
        em \in {NoBody, JStr("user@example.com"), JStr("user.name@example.com"),
                JStr("user+tag@example.com"), JStr("not-an-email"),
                JStr("@example.com"), JStr("user@"), JStr("user@example")},
        f \in {NoBody, JNull, JStr("John Doe")}}

Requests_D05_06 == UserRequests

Requests_D05_07 == UserRequests

Requests_D06_01 ==
    {Get(<<"items", seg>>, <<>>) : seg \in {"0", "1", "5", "-3", "abc"}}
    \cup {Get(<<"other">>, <<>>)}

Requests_D06_02 ==
    {Get(<<"">>, <<>>), Get(<<"">>, << <<"name", "Li Si">> >>),
     Get(<<"name">>, <<>>), Request("POST", <<"">>, <<>>, NoBody)}

Requests(l) ==
    CASE l = "D02_02" -> Requests_D02_02
      [] l = "D02_03" -> Requests_D02_03
      [] l = "D02_05" -> Requests_D02_05
      [] l = "D02_06" -> Requests_D02_06
      [] l = "D02_07" -> Requests_D02_07
      [] l = "D02_09" -> Requests_D02_09
      [] l = "D02_11" -> Requests_D02_11
      [] l = "D02_12" -> Requests_D02_12
      [] l = "D03_01" -> Requests_D03_01
      [] l = "D03_03" -> Requests_D03_03
      [] l = "D03_04" -> Requests_D03_04
      [] l = "D03_05" -> Requests_D03_05
      [] l = "D04_01" -> Requests_D04_01
      [] l = "D04_02" -> Requests_D04_02
      [] l = "D04_06" -> Requests_D04_06
      [] l = "D05_02" -> Requests_D05_02
      [] l = "D05_04" -> Requests_D05_04
      [] l = "D05_05" -> Requests_D05_05
      [] l = "D05_06" -> Requests_D05_06
      [] l = "D05_07" -> Requests_D05_07
      [] l = "D06_01" -> Requests_D06_01
      [] l = "D06_02" -> Requests_D06_02
      [] OTHER -> {}

-----------------------------------------------------------------------------
(* How a script lesson is run, and the database file it finds.             *)

(* Run directly (python file.py), or imported and its functions called. *)
(* A lesson with routes is served, or imported by a caller that awaits its  *)
(* handler functions itself.                                               *)
Modes(l) ==
    CASE l \in Scripts -> {"main", "import"}
      [] l \in DirectlyCalled -> {"serve", "import"}
      [] OTHER -> {"serve"}

Main(l) ==
    CASE l = "D01_01" -> Main_D01_01
      [] l = "D01_02" -> Main_D01_02
      [] l = "D06_05" -> Main_D06_05
      [] l = "D07_01" -> Main_D07_01
      [] OTHER -> <<>>

Functions(l) ==
    CASE l = "D01_01" -> Functions_D01_01
      [] l = "D02_05" -> Functions_D02_05
      [] l = "D01_02" -> Functions_D01_02
      [] l = "D06_05" -> Functions_D06_05
      [] l = "D07_01" -> Functions_D07_01
      [] OTHER -> {}

Drivers(l, m) ==
    CASE m = "main" -> {Main(l)}
      [] m = "import" -> CallSequences(Functions(l), MaxCalls)
      [] OTHER -> {<<>>}

(* The rows an earlier run or another program may have left in             *)
(* database.db: keys are unique, stu_id is a student's key, null or a key  *)
(* no student has.                                                         *)
StudentRows ==
    { <<>>, << Student(1, "liming", 18) >>,
      << Student(1, "liming", 18), Student(2, "zhangsan", 19) >> }

CourseRows ==
    LET all == << Course(1, "math", JInt(1)), Course(2, "chinese", JInt(2)),
                  Course(3, "art", JNull), Course(4, "music", JInt(7)),
                  Course(5, "physics", JInt(1)) >>
    IN  {SelectSeq(all, LAMBDA c : c.id \in keep) : keep \in SUBSET (1..Len(all))}

Databases_D06_05 ==
    {NoDatabase}
    \cup {Database([t \in Tables_D06_05 |-> IF t = "student" THEN s ELSE c], "delete") :
            s \in StudentRows, c \in CourseRows}

(* What data_new.db may hold at start: nothing, or the tables with rows of *)
(* earlier runs, in either journal mode.                                   *)
UserRows ==
    { <<>>, << User(1, "patrick", JStr("Patrick Star")) >>,
      << User(1, "spongebob", JStr("Spongebob Squarepants")) >>,
      << User(1, "patrick", JNull),
         User(2, "spongebob", JStr("Spongebob Squarepants")) >> }

Databases_D07_01 ==
    {NoDatabase}
    \cup {Database([t \in Tables_D07_01 |-> IF t = "user_account" THEN u ELSE <<>>], j) :
            u \in UserRows, j \in {"delete", "wal"}}
    \cup {Database([t \in {"user_account"} |-> <<>>], "delete")}

InitialDatabases(l) ==
    CASE l = "D06_05" -> Databases_D06_05
      [] l = "D07_01" -> Databases_D07_01
      [] OTHER -> {NoDatabase}

-----------------------------------------------------------------------------
(* The state machine: one lesson file is run, then requests are served one *)
(* at a time.                                                              *)

NoRequest == Request("", <<>>, <<>>, NoBody)

Init ==
    /\ lesson \in Lessons
    /\ app = NoApp("none")
    /\ nreq = 0
    /\ req = NoRequest
    /\ pc = "start"
    /\ depth = 0
    /\ matched = 0
    /\ args = EmptyMap
    /\ ret = JNull
    /\ resp = NoResponse
    /\ events = <<>>
    /\ log = <<>>
    /\ mode \in Modes(lesson)
    /\ todo \in Drivers(lesson, mode)
    /\ db \in InitialDatabases(lesson)
    /\ out = <<>>
    /\ globals = EmptyMap

(* The module level code of the lesson file runs to its end or to the      *)
(* first error.                                                            *)
LoadModule ==
    /\ pc = "start"
    /\ app' = LoadResult(ModuleDecl(lesson))
    /\ globals' = IF LoadResult(ModuleDecl(lesson)).state = "ready"
                  THEN ModuleGlobals(lesson) ELSE EmptyMap
    /\ pc' = "idle"
    /\ UNCHANGED script
    /\ UNCHANGED <<log, lesson, nreq, req, depth, matched, args, ret, resp, events>>

(* A client sends a request.  Without an application (the file failed to   *)
(* load) nothing serves it.                                                *)
BeginRequest(rq) ==
    /\ mode = "serve"
    /\ pc \in {"idle", "done"}
    /\ nreq < MaxRequests
    /\ nreq' = nreq + 1
    /\ req' = rq
    /\ pc' = IF app.state = "ready" THEN "mw_pre" ELSE "done"
    /\ depth' = 0
    /\ matched' = 0
    /\ args' = EmptyMap
    /\ ret' = JNull
    /\ resp' = NoResponse
    /\ events' = <<>>
    /\ log' = Append(log, Event("client", "request", rq.method \o " " \o PathText(rq.path)))
    /\ UNCHANGED script
    /\ UNCHANGED globals
    /\ UNCHANGED <<lesson, app>>

(* The next middleware of the stack runs up to its call_next. *)
MiddlewareEnter ==
    /\ pc = "mw_pre"
    /\ depth < Len(app.user_middleware)
    /\ events' = Append(events, MiddlewarePre(app.user_middleware[depth + 1], req))
    /\ depth' = depth + 1
    /\ UNCHANGED script
    /\ UNCHANGED globals
    /\ UNCHANGED <<log, lesson, app, nreq, req, pc, matched, args, ret, resp>>

(* The router picks the route. *)
RouteRequest ==
    /\ pc = "mw_pre"
    /\ depth = Len(app.user_middleware)
    /\ matched' = MatchRoute(app.routes, req)
    /\ IF matched' = 0
       THEN resp' = NotFound(app.routes, req) /\ pc' = "mw_post"
       ELSE resp' = resp /\ pc' = "validate"
    /\ UNCHANGED script
    /\ UNCHANGED globals
    /\ UNCHANGED <<log, lesson, app, nreq, req, depth, args, ret, events>>

(* The route's dependencies are called and the declared parameters are     *)
(* resolved and validated; a failure answers 422 without calling the       *)
(* handler.                                                                *)
ValidateRequest ==
    /\ pc = "validate"
    /\ LET rt == app.routes[matched]
           called == Providers(rt)
       IN  /\ log' = log \o [i \in 1..Len(called) |-> Event(called[i], "provider", "")]
           /\ IF ValidationOK(rt, req)
              THEN /\ args' = ResolvedArgs(rt, req)
                   /\ resp' = resp
                   /\ pc' = "handler"
              ELSE /\ args' = args
                   /\ resp' = Unprocessable(rt, req)
                   /\ pc' = "mw_post"
    /\ UNCHANGED script
    /\ UNCHANGED globals
    /\ UNCHANGED <<lesson, app, nreq, req, depth, matched, ret, events>>

(* The handler body runs on the resolved arguments. *)
RunHandler(rnd) ==
    /\ pc = "handler"
    /\ ret' = HandlerBody(lesson, app.routes[matched].handler, args, rnd)
    /\ globals' = GlobalsAfter(lesson, app.routes[matched].handler, globals)
    /\ events' = Append(events, Event(app.routes[matched].handler, "handler", ""))
    /\ log' = Append(log, Event(app.routes[matched].handler, "handler", ""))
    /\ pc' = "serialize"
    /\ UNCHANGED script
    /\ UNCHANGED <<lesson, app, nreq, req, depth, matched, args, resp>>

(* The return value is serialised into the response. *)
Serialize ==
    /\ pc = "serialize"
    /\ resp' = SerializeResponse(app.routes[matched], ret)
    /\ pc' = "mw_post"
    /\ UNCHANGED script
    /\ UNCHANGED globals
    /\ UNCHANGED <<log, lesson, app, nreq, req, depth, matched, args, ret, events>>

(* call_next returns into the innermost middleware still waiting. *)
MiddlewareExit ==
    /\ pc = "mw_post"
    /\ depth > 0
    /\ events' = Append(events, MiddlewarePost(app.user_middleware[depth]))
    /\ depth' = depth - 1
    /\ UNCHANGED script
    /\ UNCHANGED globals
    /\ UNCHANGED <<log, lesson, app, nreq, req, pc, matched, args, ret, resp>>

(* The response leaves the application. *)
SendResponse ==
    /\ pc = "mw_post"
    /\ depth = 0
    /\ pc' = "done"
    /\ UNCHANGED script
    /\ UNCHANGED globals
    /\ UNCHANGED <<log, lesson, app, nreq, req, depth, matched, args, ret, resp, events>>

-----------------------------------------------------------------------------
(* Script lessons: once the module has loaded, the calls of the driver run *)
(* one after the other; an exception that nothing catches ends the run.    *)

Calling(l, fn) ==
    /\ lesson = l
    /\ pc = "idle"
    /\ app.state = "ready"
    /\ Len(todo) > 0
    /\ Head(todo).fn = fn

Entered(fn) == Append(log, Event(fn, "call", ""))

(* The call returns to the driver. *)
Return ==
    /\ pc' = "idle"
    /\ todo' = Tail(todo)

(* The call raises; nothing catches it. *)
Raise ==
    /\ pc' = "error"
    /\ todo' = <<>>

(* await read_item(q) by an importing caller; q defaults to None. *)
D02_05_read_item ==
    /\ Calling("D02_05", "read_item")
    /\ log' = Entered("read_item")
    /\ out' = Append(out, read_item_D02_05(IF Len(Head(todo).args) >= 1
                                            THEN Head(todo).args[1] ELSE JNull))
    /\ Return
    /\ UNCHANGED <<lesson, app, mode, db>>
    /\ UNCHANGED serving

(* result = get_full_name(...); print(result), or the call of an importing *)
(* caller.                                                                 *)
D01_01_get_full_name ==
    /\ Calling("D01_01", "get_full_name")
    /\ log' = Entered("get_full_name")
    /\ out' = Append(out, Text(get_full_name(Head(todo).args[1], Head(todo).args[2])))
    /\ Return
    /\ UNCHANGED <<lesson, app, mode, db>>
    /\ UNCHANGED serving

(* print(get_name_with_age(...)), or the call of an importing caller. *)
D01_02_get_name_with_age ==
    /\ Calling("D01_02", "get_name_with_age")
    /\ log' = Entered("get_name_with_age")
    /\ out' = Append(out, Text(get_name_with_age(Head(todo).args[1], AgeOf(Head(todo)))))
    /\ Return
    /\ UNCHANGED <<lesson, app, mode, db>>
    /\ UNCHANGED serving

D06_05_create_db_and_tables ==
    /\ Calling("D06_05", "create_db_and_tables")
    /\ log' = Entered("create_db_and_tables")
    /\ db' = create_db_and_tables_D06_05(db)
    /\ Return
    /\ UNCHANGED <<lesson, app, mode, out>>
    /\ UNCHANGED serving

D06_05_create_student ==
    /\ Calling("D06_05", "create_student")
    /\ log' = Entered("create_student")
    /\ IF HasTable(db, "student")
       THEN /\ db' = create_student(db).db
            /\ out' = out \o create_student(db).printed
            /\ Return
       ELSE /\ UNCHANGED <<db, out>>
            /\ Raise
    /\ UNCHANGED <<lesson, app, mode>>
    /\ UNCHANGED serving

D06_05_create_course ==
    /\ Calling("D06_05", "create_course")
    /\ log' = Entered("create_course")
    /\ IF HasTable(db, "course")
       THEN /\ db' = create_course(db).db
            /\ out' = out \o create_course(db).printed
            /\ Return
       ELSE /\ UNCHANGED <<db, out>>
            /\ Raise
    /\ UNCHANGED <<lesson, app, mode>>
    /\ UNCHANGED serving

D06_05_select_student_course(plan) ==
    /\ Calling("D06_05", "select_student_course")
    /\ log' = Entered("select_student_course")
    /\ IF HasTable(db, "student") /\ HasTable(db, "course")
       THEN /\ out' = out \o select_student_course(db, plan)
            /\ Return
       ELSE /\ out' = out
            /\ Raise
    /\ UNCHANGED <<lesson, app, mode, db>>
    /\ UNCHANGED serving

(* A step inside a function: it is recorded and the function goes on. *)
Step(fn, step) == Append(log, Event(fn, step, ""))

(* create_db_and_tables: Base.metadata.create_all(engine) *)
D07_01_create_all ==
    /\ Calling("D07_01", "create_db_and_tables")
    /\ log' = Entered("create_db_and_tables") \o
                 << Event("create_db_and_tables", "create_all", "") >>
    /\ db' = CreateAll(db, Tables_D07_01)
    /\ pc' = "create_db_and_tables:pragma"
    /\ UNCHANGED <<lesson, app, mode, todo, out>>
    /\ UNCHANGED serving

(* create_db_and_tables: conn.execute(text("PRAGMA journal_mode=WAL")) *)
D07_01_pragma ==
    /\ lesson = "D07_01"
    /\ pc = "create_db_and_tables:pragma"
    /\ log' = Step("create_db_and_tables", "pragma")
    /\ db' = SetJournalMode(db, "wal")
    /\ pc' = "create_db_and_tables:commit"
    /\ UNCHANGED <<lesson, app, mode, todo, out>>
    /\ UNCHANGED serving

(* create_db_and_tables: conn.commit() and the end of the with block *)
D07_01_commit ==
    /\ lesson = "D07_01"
    /\ pc = "create_db_and_tables:commit"
    /\ log' = Step("create_db_and_tables", "commit")
    /\ db' = Commit(db)
    /\ Return
    /\ UNCHANGED <<lesson, app, mode, out>>
    /\ UNCHANGED serving

(* create_user: the insert and the print inside engine.begin() *)
D07_01_create_user_insert ==
    /\ Calling("D07_01", "create_user")
    /\ IF HasTable(db, "user_account")
       THEN /\ log' = Entered("create_user") \o << Event("create_user", "insert", "") >>
            /\ db' = InsertPending(db, "user_account",
                        [name |-> "spongebob",
                         fullname |-> JStr("Spongebob Squarepants")])
            /\ out' = Append(out, [created |-> NextId(db.rows["user_account"])])
            /\ pc' = "create_user:exit"
            /\ todo' = todo
       ELSE /\ log' = Entered("create_user")
            /\ UNCHANGED <<db, out>>
            /\ Raise
    /\ UNCHANGED <<lesson, app, mode>>
    /\ UNCHANGED serving

(* create_user: leaving the engine.begin() block commits *)
D07_01_create_user_commit ==
    /\ lesson = "D07_01"
    /\ pc = "create_user:exit"
    /\ log' = Step("create_user", "commit")
    /\ db' = Commit(db)
    /\ Return
    /\ UNCHANGED <<lesson, app, mode, out>>
    /\ UNCHANGED serving

D07_01_query_users ==
    /\ Calling("D07_01", "query_users")
    /\ log' = Entered("query_users")
    /\ IF HasTable(db, "user_account")
       THEN out' = out \o query_users(db) /\ Return
       ELSE out' = out /\ Raise
    /\ UNCHANGED <<lesson, app, mode, db>>
    /\ UNCHANGED serving

D07_01_query_uesr1 ==
    /\ Calling("D07_01", "query_uesr1")
    /\ log' = Entered("query_uesr1")
    /\ IF HasTable(db, "user_account")
       THEN out' = Append(out, query_uesr1(db)) /\ Return
       ELSE out' = out /\ Raise
    /\ UNCHANGED <<lesson, app, mode, db>>
    /\ UNCHANGED serving

Next ==
    \/ LoadModule
    \/ \E rq \in Requests(lesson) : BeginRequest(rq)
    \/ MiddlewareEnter
    \/ RouteRequest
    \/ ValidateRequest
    \/ \E rnd \in 1..Len(data) : RunHandler(rnd)
    \/ Serialize
    \/ MiddlewareExit
    \/ SendResponse
    \/ D01_01_get_full_name
    \/ D01_02_get_name_with_age
    \/ D02_05_read_item
    \/ D06_05_create_db_and_tables
    \/ D06_05_create_student
    \/ D06_05_create_course
    \/ \E plan \in Plans : D06_05_select_student_course(plan)
    \/ D07_01_create_all
    \/ D07_01_pragma
    \/ D07_01_commit
    \/ D07_01_create_user_insert
    \/ D07_01_create_user_commit
    \/ D07_01_query_users
    \/ D07_01_query_uesr1

Spec == Init /\ [][Next]_vars

-----------------------------------------------------------------------------
(* Properties.                                                             *)

HandlerEvents == SelectSeq(events, LAMBDA e : e.phase = "handler")

HandlersRun == [i \in 1..Len(HandlerEvents) |-> HandlerEvents[i].by]

EventOrder == [i \in 1..Len(events) |-> <<events[i].by, events[i].phase>>]

Finished == pc = "done"

Answered(status) == resp.served /\ resp.status = status

(* Twice the value of a JSON number, an integer. *)
Twice(v) == 2 * v.w + v.h

ValidUserIn ==
    /\ req.body.t = "obj"
    /\ {"username", "password", "email"} \subseteq DOMAIN req.body.f
    /\ req.body.f.username.t = "str"
    /\ req.body.f.password.t = "str"
    /\ req.body.f.email.t = "str" /\ EmailValid(req.body.f.email.s)
    /\ ("full_name" \in DOMAIN req.body.f => req.body.f.full_name.t \in {"null", "str"})

(* C2: for POST /user/ in the duplicate-record design (Day05 lesson 6) and *)
(* in the inheritance design (Day05 lesson 7), every valid body yields a   *)
(* response whose keys are exactly username, email and full_name, with the *)
(* values of the request and nothing that depends on the password.         *)
C2_PasswordFiltered ==
    (lesson \in {"D05_06", "D05_07"} /\ Finished /\ ValidUserIn) =>
        /\ Answered(200)
        /\ resp.body.t = "obj"
        /\ DOMAIN resp.body.f = {"username", "email", "full_name"}
        /\ resp.body.f.username = req.body.f.username
        /\ resp.body.f.email = req.body.f.email
        /\ resp.body.f.full_name =
              IF "full_name" \in DOMAIN req.body.f THEN req.body.f.full_name ELSE JNull

(* C3: a handler body runs only once every declared parameter is resolved  *)
(* and every declared validator has passed (the id prefix check of Day02   *)
(* lesson 11, the integer >= 1 path constraint and the required q of       *)
(* lesson 12); a request that fails validation is answered with a client   *)
(* error and its handler never runs.                                       *)
C3_ValidationBeforeHandler ==
    /\ (pc \in {"handler", "serialize"} \/ Len(HandlerEvents) > 0) =>
          /\ matched # 0
          /\ ValidationOK(app.routes[matched], req)
          /\ DOMAIN args = ParamNames(app.routes[matched])
          /\ lesson = "D02_11" =>
                (QueryHas(req.query, "id") =>
                    LET id == QueryGet(req.query, "id")
                    IN  StartsWith(id, "isbn-") \/ StartsWith(id, "imdb-"))
          /\ lesson = "D02_12" =>
                /\ IsIntLiteral(req.path[2])
                /\ ParseInt(req.path[2]) >= 1
                /\ QueryHas(req.query, "q")
    /\ Len(HandlerEvents) > 0 => pc \in {"serialize", "mw_post", "done"}
    /\ Len(HandlerEvents) <= 1
    /\ (pc \in {"mw_post", "done"} /\ matched # 0
            /\ ~ValidationOK(app.routes[matched], req)) =>
          /\ Answered(422)
          /\ Len(HandlerEvents) = 0
    /\ Answered(422) => Len(HandlerEvents) = 0

C3_Witness ==
    /\ lesson = "D02_11" /\ Finished /\ Answered(422)
    /\ QueryHas(req.query, "id")
    /\ QueryGet(req.query, "id") = "invalid-id"
    /\ Len(HandlerEvents) = 0

(* C4: with /users/me registered before /users/{user_id}, GET /users/me is *)
(* served by read_user_me with {"user_id": "the current user"}, and GET    *)
(* /users/<s> for any other single segment s by read_user with             *)
(* {"user_id": s}.                                                         *)
C4_StaticBeforeDynamic ==
    (lesson = "D02_02" /\ Finished /\ Len(req.path) = 2
        /\ req.path[1] = "users" /\ req.path[2] # "") =>
        /\ Answered(200)
        /\ IF req.path[2] = "me"
           THEN /\ HandlersRun = <<"read_user_me">>
                /\ resp.body = JObj([user_id |-> JStr("the current user")])
           ELSE /\ HandlersRun = <<"read_user">>
                /\ resp.body = JObj([user_id |-> JStr(req.path[2])])

C4_Witness ==
    /\ lesson = "D02_02" /\ Finished /\ Answered(200)
    /\ req.path = <<"users", "me">>
    /\ HandlersRun = <<"read_user_me">>

QueryInt(k, default) ==
    IF QueryHas(req.query, k) THEN ParseInt(QueryGet(req.query, k)) ELSE default

QueryIntOK(k) == QueryHas(req.query, k) => IsIntLiteral(QueryGet(req.query, k))

ItemNames(list) == [i \in 1..Len(list.items) |-> list.items[i].f.item_name.s]

IsItemPayload(v) ==
    /\ v.t = "obj"
    /\ {"name", "price"} \subseteq DOMAIN v.f
    /\ v.f.name.t = "str"
    /\ v.f.price.t = "num"
    /\ ("description" \in DOMAIN v.f => v.f.description.t \in {"null", "str"})
    /\ ("tax" \in DOMAIN v.f => v.f.tax.t \in {"null", "num"})

(* The Item the handler receives for payload v. *)
ItemOf(v) ==
    JObj([k \in {"name", "description", "price", "tax"} |->
            IF k \in DOMAIN v.f THEN v.f[k] ELSE JNull])

IsEmbedded(b) == b.t = "obj" /\ DOMAIN b.f = {"item"}

(* C7: for an Item payload P, the non-embedded PUT /items/{item_id} (Day04 *)
(* lesson 6) accepts P at the top level of the body and rejects            *)
(* {"item": P}; the embedded route (Day03 lesson 5) accepts {"item": P}    *)
(* and rejects P at the top level; an accepted request returns item_id and *)
(* the item.                                                               *)
C7_EmbeddingToggle ==
    (lesson \in {"D03_05", "D04_06"} /\ Finished /\ IsIntLiteral(req.path[2])) =>
        LET embedded == lesson = "D03_05"
            echo(P) == JObj([item_id |-> JInt(ParseInt(req.path[2])),
                             item |-> ItemOf(P)])
        IN  /\ IsItemPayload(req.body) =>
                 IF embedded THEN Answered(422)
                 ELSE Answered(200) /\ resp.body = echo(req.body)
            /\ (IsEmbedded(req.body) /\ IsItemPayload(req.body.f.item)) =>
                 IF embedded
                 THEN Answered(200) /\ resp.body = echo(req.body.f.item)
                 ELSE Answered(422)

IsUserPayload(v) ==
    /\ v.t = "obj"
    /\ "username" \in DOMAIN v.f
    /\ v.f.username.t = "str"
    /\ ("full_name" \in DOMAIN v.f => v.f.full_name.t \in {"null", "str"})

UserOf(v) ==
    JObj([k \in {"username", "full_name"} |->
            IF k \in DOMAIN v.f THEN v.f[k] ELSE JNull])

(* C8: PUT /items/{item_id} of Day03 lesson 4 reads importance from the    *)
(* body key "importance" only: a body with valid item, user and integer    *)
(* importance succeeds and echoes item_id, item, user and importance; a    *)
(* request whose body lacks the key fails validation, also when it gives   *)
(* importance as a query parameter.                                        *)
C8_ImportanceFromBody ==
    (lesson = "D03_04" /\ Finished /\ IsIntLiteral(req.path[2])) =>
        /\ (/\ req.body.t = "obj"
            /\ {"item", "user", "importance"} \subseteq DOMAIN req.body.f
            /\ IsItemPayload(req.body.f.item)
            /\ IsUserPayload(req.body.f.user)
            /\ req.body.f.importance.t = "num"
            /\ req.body.f.importance.h = 0) =>
              /\ Answered(200)
              /\ resp.body =
                    JObj([item_id |-> JInt(ParseInt(req.path[2])),
                          item |-> ItemOf(req.body.f.item),
                          user |-> UserOf(req.body.f.user),
                          importance |-> req.body.f.importance])
        /\ (req.body.t # "obj" \/ "importance" \notin DOMAIN req.body.f) =>
              /\ Answered(422)
              /\ Len(HandlerEvents) = 0

C8_Witness ==
    /\ lesson = "D03_04" /\ Finished /\ Answered(422)
    /\ req.query = << <<"importance", "5">> >>
    /\ req.body.t = "obj"
    /\ DOMAIN req.body.f = {"item", "user"}
    /\ IsItemPayload(req.body.f.item)
    /\ IsUserPayload(req.body.f.user)

(* The constraints of the Day04 lesson 1 Item, on a payload of the right   *)
(* types.                                                                  *)
ItemAccepted(v) ==
    /\ "name" \in DOMAIN v.f
    /\ 1 <= Len(v.f.name.s) /\ Len(v.f.name.s) <= 100
    /\ ("description" \in DOMAIN v.f /\ v.f.description.t # "null") =>
          Len(v.f.description.s) <= 500
    /\ "price" \in DOMAIN v.f
    /\ 0 < Twice(v.f.price) /\ Twice(v.f.price) <= 2 * 1000000
    /\ ("tax" \in DOMAIN v.f /\ v.f.tax.t # "null") =>
          (0 <= Twice(v.f.tax) /\ Twice(v.f.tax) <= 2 * 100)

C10_QueryLength ==
    (lesson = "D02_09" /\ Finished /\ req.path = <<"items", "">>
        /\ QueryHas(req.query, "q")) =>
        LET q == QueryGet(req.query, "q")
        IN  IF 3 <= Len(q) /\ Len(q) <= 50
            THEN /\ Answered(200)
                 /\ resp.body =
                       JObj([items |-> JList(<< JObj([item_id |-> JStr("Foo")]),
                                                JObj([item_id |-> JStr("Bar")]) >>),
                             q |-> JStr(q)])
            ELSE Answered(422)

(* The (id, name) pairs of the Day02 lesson 11 fixture mapping. *)
FixtureEntries ==
    { JObj([id |-> JStr("isbn-9781529046137"),
            name |-> JStr("The Hitchhiker's Guide to the Galaxy")]),
      JObj([id |-> JStr("imdb-tt0371724"),
            name |-> JStr("The Hitchhiker's Guide to the Galaxy")]),
      JObj([id |-> JStr("isbn-9781439512982"),
            name |-> JStr("Isaac Asimov: The Complete Stories, Vol. 2")]) }

(* C11: for GET /items/ of Day02 lesson 11, a supplied id that starts with *)
(* neither "isbn-" nor "imdb-" fails validation (422, the diagnostic names *)
(* the query parameter id, and the handler does not run); when id is       *)
(* absent the response is one of the three fixture entries, and at the     *)
(* point of the draw each of the three entries is a possible outcome.      *)
C11_ValidatorAndFallback ==
    (lesson = "D02_11" /\ req.path = <<"items", "">>) =>
        /\ (Finished /\ QueryHas(req.query, "id")
              /\ ~StartsWith(QueryGet(req.query, "id"), "isbn-")
              /\ ~StartsWith(QueryGet(req.query, "id"), "imdb-")) =>
              /\ Answered(422)
              /\ resp.body.f.detail.items =
                    << JObj([loc |-> JStr("query"), name |-> JStr("id")]) >>
              /\ Len(HandlerEvents) = 0
        /\ (Finished /\ ~QueryHas(req.query, "id")) =>
              /\ Answered(200)
              /\ resp.body \in FixtureEntries
        /\ (pc = "handler" /\ ~QueryHas(req.query, "id")) =>
              /\ Cardinality(FixtureEntries) = 3
              /\ \A e \in FixtureEntries :
                    ENABLED (\E rnd \in 1..Len(data) : RunHandler(rnd) /\ ret' = e)

C11_Witness ==
    /\ lesson = "D02_11" /\ Finished /\ Answered(200)
    /\ ~QueryHas(req.query, "id")
    /\ resp.body = JObj([id |-> JStr("isbn-9781439512982"),
                         name |-> JStr("Isaac Asimov: The Complete Stories, Vol. 2")])

(* The request of Day02 lesson 12 carries an integer item_id >= 1 and a q. *)
ValidItemRequest ==
    /\ Len(req.path) = 2 /\ req.path[1] = "items"
    /\ IsIntLiteral(req.path[2]) /\ ParseInt(req.path[2]) >= 1
    /\ QueryHas(req.query, "q")

ModelMessage(name) ==
    CASE name = "alexnet" -> "Deep Learning FTW!"
      [] name = "lenet" -> "LeCNN all the images"
      [] name = "resnet" -> "Have some residuals"

(* C13: GET /models/{model_name} answers alexnet with "Deep Learning FTW!",*)
(* lenet with "LeCNN all the images" and resnet with "Have some            *)
(* residuals", echoing model_name; any other path value (vgg) is a         *)
(* validation failure and the handler's branches never run.                *)
C13_ModelNameEnum ==
    (lesson = "D02_03" /\ Finished /\ Len(req.path) = 2
        /\ req.path[1] = "models" /\ req.path[2] # "") =>
        IF req.path[2] \in {"alexnet", "lenet", "resnet"}
        THEN /\ Answered(200)
             /\ resp.body = JObj([model_name |-> JStr(req.path[2]),
                                  message |-> JStr(ModelMessage(req.path[2]))])
        ELSE /\ Answered(422)
             /\ Len(HandlerEvents) = 0

C13_Witness ==
    /\ lesson = "D02_03" /\ Finished /\ Answered(422)
    /\ req.path = <<"models", "vgg">>
    /\ Len(HandlerEvents) = 0


(* An Item of the Day05 lessons with only name and price given. *)
PlainItem(name, price) ==
    JObj([name |-> JStr(name), description |-> JNull, price |-> JInt(price),
          tax |-> JNull, tags |-> JList(<<>>)])

(* C14: GET /items/ returns the same response in Day05 lesson 4 (Item      *)
(* instances under the return annotation list[Item]) and in lesson 5 (raw  *)
(* mappings under response_model=list[Item]): the list of Portal Gun at 42 *)
(* and Plumbus at 32, in that order, each with every Item field,           *)
(* description, tax and tags at their defaults, and no other key.          *)
C14_SameItemList ==
    (lesson \in {"D05_04", "D05_05"} /\ Finished
        /\ req.method = "GET" /\ req.path = <<"items", "">>) =>
        /\ Answered(200)
        /\ resp.body = JList(<< PlainItem("Portal Gun", 42), PlainItem("Plumbus", 32) >>)


XTokenValues(v) == JObj([k \in {"X-Token values"} |-> v])

ThreeTokens == JList(<< JStr("token1"), JStr("token2"), JStr("token3") >>)

(* C15: for GET /items/ of Day05 lesson 2, the comma-joined header line    *)
(* X-Token: token1, token2, token3 and the three repeated X-Token lines    *)
(* both yield ["token1", "token2", "token3"] under "X-Token values"; with  *)
(* no X-Token header the value is null.                                    *)
C15_WireFormsAgree ==
    (lesson = "D05_02" /\ Finished /\ req.path = <<"items", "">>) =>
        /\ req.headers \in {CommaJoined, RepeatedLines} =>
              Answered(200) /\ resp.body = XTokenValues(ThreeTokens)
        /\ req.headers = <<>> =>
              Answered(200) /\ resp.body = XTokenValues(JNull)


RootLog ==
    SelectSeq(log, LAMBDA e :
        \/ e = Event("client", "request", "GET /")
        \/ e.phase = "provider"
        \/ e.phase = "handler")

CountOf(seq, e) == Cardinality({i \in 1..Len(seq) : seq[i] = e})

(* C17: in the Day06 dependency lesson, after n requests to GET / the      *)
(* provider get_name has been called exactly n times, each call between    *)
(* the arrival of its request and the run of index for that request (no    *)
(* value is kept from an earlier request), and every response is           *)
(* {"name": "<the provider's text>"}.                                      *)
C17_ProviderPerRequest ==
    lesson = "D06_02" =>
        /\ \A i \in 1..Len(RootLog) :
              RootLog[i] = << Event("client", "request", "GET /"),
                              Event("get_name", "provider", ""),
                              Event("index", "handler", "") >>[((i - 1) % 3) + 1]
        /\ Finished =>
              /\ CountOf(log, Event("get_name", "provider", ""))
                    = CountOf(log, Event("client", "request", "GET /"))
              /\ CountOf(log, Event("index", "handler", ""))
                    = CountOf(log, Event("client", "request", "GET /"))
              /\ (req.method = "GET" /\ req.path = <<"">>) =>
                    Answered(200) /\ resp.body = JObj([name |-> JStr(ZhangSan)])

C17_Witness ==
    /\ lesson = "D06_02" /\ Finished /\ nreq = MaxRequests
    /\ CountOf(log, Event("client", "request", "GET /")) = MaxRequests
    /\ CountOf(log, Event("get_name", "provider", "")) = MaxRequests
    /\ resp.body = JObj([name |-> JStr(ZhangSan)])


(* The (student, course) pairs the tables link: a Course row whose stu_id  *)
(* is the id of a Student row, with that student.                          *)
LinkedPairs(d) ==
    LET students == d.rows["student"]
        courses == d.rows["course"]
    IN  { [student |-> students[i], course |-> courses[j]] :
            <<i, j>> \in {p \in (1..Len(students)) \X (1..Len(courses)) :
                            /\ courses[p[2]].stu_id.t = "num"
                            /\ courses[p[2]].stu_id.h = 0
                            /\ courses[p[2]].stu_id.w = students[p[1]].id} }

(* C18: whatever the Student and Course tables hold, a call of             *)
(* select_student_course prints exactly one (student, course) pair for     *)
(* each Course row whose stu_id is the id of an existing Student, and      *)
(* nothing else: a Student without Course, a Course with a null stu_id and *)
(* a Course whose stu_id no Student has give no row.                       *)
C18_JoinRows ==
    [][(Calling("D06_05", "select_student_course") /\ pc' = "idle") =>
          LET yielded == SubSeq(out', Len(out) + 1, Len(out'))
          IN  /\ {yielded[k] : k \in 1..Len(yielded)} = LinkedPairs(db)
              /\ Len(yielded) = Cardinality(LinkedPairs(db))
              /\ \A k \in 1..Len(yielded) :
                    /\ yielded[k].course.stu_id # JNull
                    /\ yielded[k].course.stu_id = JInt(yielded[k].student.id)
              /\ db' = db]_vars

C18_Witness ==
    /\ lesson = "D06_05" /\ mode = "main" /\ pc = "idle" /\ todo = <<>>
    /\ db.rows["student"] = << Student(1, "liming", 18), Student(2, "zhangsan", 19) >>
    /\ db.rows["course"] = << Course(1, "math", JInt(1)), Course(3, "art", JNull),
                              Course(4, "music", JInt(7)),
                              Course(5, "physics", JInt(1)) >>
    /\ out = << [student |-> Student(1, "liming", 18),
                 course |-> Course(1, "math", JInt(1))],
                [student |-> Student(1, "liming", 18),
                 course |-> Course(5, "physics", JInt(1))] >>


(* The run of a script has ended without an exception. *)
Ended == pc = "idle" /\ app.state = "ready" /\ todo = <<>>

IsPrefix(s, t) == Len(s) <= Len(t) /\ s = SubSeq(t, 1, Len(s))

(* What the direct run of Day07 lesson 1 does, in order. *)
DirectRun_D07_01 ==
    << Event("create_db_and_tables", "call", ""),
       Event("create_db_and_tables", "create_all", ""),
       Event("create_db_and_tables", "pragma", ""),
       Event("create_db_and_tables", "commit", ""),
       Event("create_user", "call", ""),
       Event("create_user", "insert", ""),
       Event("create_user", "commit", ""),
       Event("query_uesr1", "call", "") >>

(* C19: run directly, Day07 lesson 1 executes create_db_and_tables, then   *)
(* create_user, then query_uesr1 and nothing else; in                      *)
(* create_db_and_tables both tables exist before the journal mode is set   *)
(* to WAL and committed; and the final query prints a user_account row     *)
(* named "spongebob", never None.                                          *)
C19_DriverSequence ==
    (lesson = "D07_01" /\ mode = "main") =>
        /\ pc # "error"
        /\ IsPrefix(log, DirectRun_D07_01)
        /\ pc \in {"create_db_and_tables:pragma", "create_db_and_tables:commit"} =>
              Tables_D07_01 \subseteq DOMAIN db.rows
        /\ pc = "create_db_and_tables:commit" => db.journal_mode = "wal"
        /\ Ended =>
              /\ log = DirectRun_D07_01
              /\ db.journal_mode = "wal"
              /\ Len(out) = 2
              /\ out[2] # Text("None")
              /\ out[2].name = "spongebob"
              /\ \E i \in 1..Len(db.rows["user_account"]) :
                    db.rows["user_account"][i] = out[2]

C19_Witness ==
    /\ lesson = "D07_01" /\ mode = "main" /\ Ended
    /\ log = DirectRun_D07_01
    /\ db.rows["user_account"] =
          << User(1, "patrick", JStr("Patrick Star")),
             User(2, "spongebob", JStr("Spongebob Squarepants")) >>
    /\ out = << [created |-> 2], User(2, "spongebob", JStr("Spongebob Squarepants")) >>


(* C20: get_name_with_age as finally bound returns "<name> has no age"     *)
(* exactly when age is None or omitted, and "<name> is this old: <age>"    *)
(* for every int or float age, age 0 included: ("John", 25) gives "John is *)
(* this old: 25", ("Jane", 25.5) gives "Jane is this old: 25.5" and        *)
(* ("Unknown", None) gives "Unknown has no age".                           *)
C20_AgedDescription ==
    [][Calling("D01_02", "get_name_with_age") =>
          LET call == Head(todo)
              name == call.args[1]
              absent == Len(call.args) < 2 \/ call.args[2] = PyNone
              result == out'[Len(out')].text
          IN  /\ Len(out') = Len(out) + 1
              /\ (result = name \o " has no age") <=> absent
              /\ ~absent =>
                    /\ result = name \o " is this old: " \o PyStr(call.args[2])
                    /\ call.args[2] \in {PyInt(0), PyFloat(0, 0)} =>
                          result \in {name \o " is this old: 0",
                                      name \o " is this old: 0.0"}
              /\ call.args = <<"John", PyInt(25)>> => result = "John is this old: 25"
              /\ call.args = <<"Jane", PyFloat(25, 1)>> =>
                    result = "Jane is this old: 25.5"
              /\ call.args = <<"Unknown", PyNone>> => result = "Unknown has no age"
              /\ call.args = <<"Alice">> => result = "Alice has no age"]_vars

C20_Witness ==
    /\ lesson = "D01_02" /\ mode = "main" /\ Ended
    /\ out = << Text("John is this old: 25"), Text("Jane is this old: 25.5"),
                Text("Unknown has no age"), Text("Alice has no age") >>


(* The simple lower-case mapping of one character, and texts that differ   *)
(* only in letter case.                                                    *)
SimpleLower(c) ==
    CASE c = CapitalSigma -> SmallSigma
      [] c = CapitalIDot -> "i"
      [] OTHER -> LowerChar(c)

SameLetters(s, t) ==
    /\ Len(s) = Len(t)
    /\ \A i \in 1..Len(s) : SimpleLower(s[i]) = SimpleLower(t[i])

IsAscii(s) == \A i \in 1..Len(s) : s[i] \notin {CapitalSigma, SmallSigma, FinalSigma, CapitalIDot, CombiningDot}

(* Every upper-case letter of s follows an uncased character and every     *)
(* lower-case letter a cased one.                                          *)
TitleCased(s) ==
    \A i \in 1..Len(s) :
        LET after == i > 1 /\ IsCased(s[i - 1])
        IN  /\ IsUpperLetter(s[i]) => ~after
            /\ IsLowerLetter(s[i]) => after

(* What the claim states of one call of get_full_name with the texts of    *)
(* the set only. *)
FullNameLaw(only(_)) ==
    Calling("D01_01", "get_full_name") /\ only(Head(todo).args[1]) /\ only(Head(todo).args[2]) =>
        LET first == Head(todo).args[1]
            last == Head(todo).args[2]
            result == out'[Len(out')].text
        IN  /\ Len(out') = Len(out) + 1
            /\ result = title(first) \o << " " >> \o title(last)
            /\ title(result) = result
            /\ \A c \in Functions_D01_01 :
                  only(c.args[1]) /\ only(c.args[2])
                  /\ SameLetters(c.args[1], first) /\ SameLetters(c.args[2], last)
                  => get_full_name(c.args[1], c.args[2]) = result
            /\ first = Chars("john") /\ last = Chars("doe") => result = Chars("John Doe")
            /\ first = Chars("jane") /\ last = Chars("SMITH") => result = Chars("Jane Smith")

AnyText(s) == TRUE

(* C21 as stated: for all texts first and last, get_full_name returns the  *)
(* title-cased first name, one space and the title-cased last name; title- *)
(* casing the result again leaves it unchanged, and inputs that differ     *)
(* only in letter case give the same result.                               *)
C21_TitleJoinAllTexts == [][FullNameLaw(AnyText)]_vars

(* C21: for all ASCII texts first and last, get_full_name returns the      *)
(* title-cased first name, one space and the title-cased last name, a text *)
(* in which a letter is upper case exactly when it does not follow a       *)
(* letter; title-casing the result again leaves it unchanged, and inputs   *)
(* that differ only in letter case give the same result ("john", "doe"     *)
(* gives "John Doe"; "jane", "SMITH" gives "Jane Smith").                  *)
C21_TitleJoinAscii ==
    [][/\ FullNameLaw(IsAscii)
       /\ Calling("D01_01", "get_full_name")
          /\ IsAscii(Head(todo).args[1]) /\ IsAscii(Head(todo).args[2])
          => TitleCased(out'[Len(out')].text)]_vars

C21_Witness ==
    /\ lesson = "D01_01" /\ mode = "import" /\ Ended
    /\ out = << Text(Chars("John Doe")), Text(Chars("Jane Smith")) >>


(* The lesson files that register routes and compile. *)
RouteLessons == {l \in Lessons \ Scripts : ModuleDecl(l).syntax_ok}

Loaded == pc # "start"

(* C22: every lesson file that registers routes binds every name it uses   *)
(* at module level before use, so that loading the file in isolation ends  *)
(* with its application built and each of its routes registered.           *)
C22_EveryLessonBoots ==
    (lesson \in RouteLessons /\ Loaded) =>
        /\ ModuleDecl(lesson).used \subseteq ModuleDecl(lesson).bound
        /\ app.state = "ready"
        /\ Len(app.routes) = Len(ModuleDecl(lesson).routes)
        /\ Len(app.routes) > 0

(* The lesson files that call FastAPI() without importing it. *)
Unbooted == {"D03_03", "D04_02", "D04_06", "D05_04", "D05_07"}

(* The other lesson files do boot. *)
BootsOutsideUnbooted ==
    (lesson \in RouteLessons \ Unbooted /\ Loaded) =>
        /\ app.state = "ready"
        /\ Len(app.routes) = Len(ModuleDecl(lesson).routes)
        /\ Len(app.routes) > 0

(* And the five end in NameError with nothing registered and no request    *)
(* served.                                                                 *)
UnbootedNeverServe ==
    (lesson \in Unbooted /\ Loaded) =>
        /\ app = NoApp("NameError")
        /\ ~resp.served


(* A finished GET /items/correct/ of Day02 lesson 5 whose skip and limit   *)
(* are integers.                                                           *)
CorrectRequest ==
    /\ lesson = "D02_05" /\ Finished /\ req.path = <<"items", "correct", "">>
    /\ QueryIntOK("skip") /\ QueryIntOK("limit")

(* The names of fake_items_db[skip : skip+limit] for the request at hand. *)
SliceNames ==
    LET skip == QueryInt("skip", 0)
        hi == QueryInt("skip", 0) + QueryInt("limit", 10)
        from == IF skip < 0 THEN Max(skip + 3, 0) ELSE Min(skip, 3)
        to == IF hi < 0 THEN Max(hi + 3, 0) ELSE Min(hi, 3)
    IN  SubSeq(<<"Foo", "Bar", "Baz">>, from + 1, to)

(* The response {"q": q, "items": L} with L the sliced names that contain  *)
(* q without regard to case; the response {"items": slice}.                *)
FilteredResponse(q) ==
    /\ Answered(200)
    /\ DOMAIN resp.body.f = {"q", "items"}
    /\ resp.body.f.q = JStr(q)
    /\ ItemNames(resp.body.f.items) =
          SelectSeq(SliceNames, LAMBDA n : Contains(Lower(n), Lower(q)))

SliceResponse ==
    /\ Answered(200)
    /\ DOMAIN resp.body.f = {"items"}
    /\ ItemNames(resp.body.f.items) = SliceNames

(* C23 as stated: GET /items/correct/ slices first and then filters; when  *)
(* q is supplied the response is {"q": q, "items": L}, L the elements of   *)
(* the slice whose item_name contains q case-insensitively, in fixture     *)
(* order; otherwise it is {"items": slice}.                                *)
C23_SuppliedQFilters ==
    CorrectRequest =>
        IF QueryHas(req.query, "q")
        THEN FilteredResponse(QueryGet(req.query, "q"))
        ELSE SliceResponse

(* C23: GET /items/correct/ slices first and then filters; when q is       *)
(* supplied and not empty the response is {"q": q, "items": L}, L the      *)
(* elements of the slice whose item_name contains q case-insensitively, in *)
(* fixture order, so that a fixture item outside the slice is never        *)
(* returned; when q is absent or empty the response is {"items": slice}.   *)
C23_SliceThenFilter ==
    CorrectRequest =>
        /\ IF QueryHas(req.query, "q") /\ QueryGet(req.query, "q") # ""
           THEN FilteredResponse(QueryGet(req.query, "q"))
           ELSE SliceResponse
        /\ \A i \in 1..Len(resp.body.f.items.items) :
              \E j \in 1..Len(SliceNames) :
                  resp.body.f.items.items[i].f.item_name.s = SliceNames[j]
        /\ req.query = << <<"skip", "0">>, <<"limit", "1">>, <<"q", "ba">> >> =>
              ItemNames(resp.body.f.items) = <<>>
        /\ req.query = << <<"skip", "1">>, <<"limit", "2">>, <<"q", "ba">> >> =>
              ItemNames(resp.body.f.items) = <<"Bar", "Baz">>
        /\ req.query = << <<"limit", "2">>, <<"q", "FOO">> >> =>
              ItemNames(resp.body.f.items) = <<"Foo">>

C23_Witness ==
    /\ CorrectRequest
    /\ req.query = << <<"skip", "0">>, <<"limit", "1">>, <<"q", "ba">> >>
    /\ resp.body = JObj([q |-> JStr("ba"), items |-> JList(<<>>)])


(* The argument q of the call of read_item at hand. *)
QOf(call) == IF Len(call.args) >= 1 THEN call.args[1] ELSE JNull

PrintedRows(columns) == SelectSeq(out, LAMBDA r : DOMAIN r = columns)

(* The tables hold what the create_* calls of this run inserted and        *)
(* nothing else: the run began with no rows.                               *)
OnlyOwnRows ==
    /\ lesson = "D06_05" /\ pc = "idle"
    /\ HasTable(db, "student") /\ HasTable(db, "course")
    /\ db.rows["student"] = PrintedRows({"id", "name", "age"})
    /\ db.rows["course"] = PrintedRows({"id", "name", "stu_id"})

(* C25: in the Day06 table lesson, after any sequence of                   *)
(* create_db_and_tables, create_student and create_course calls, every     *)
(* Course row's stu_id is the id of an existing Student row.               *)
C25_CoursesLinked ==
    OnlyOwnRows =>
        \A i \in 1..Len(db.rows["course"]) :
            \E j \in 1..Len(db.rows["student"]) :
                db.rows["course"][i].stu_id = JInt(db.rows["student"][j].id)

(* The failing run: on a new database file, create_db_and_tables and then  *)
(* create_course.                                                          *)
DanglingCourses ==
    /\ OnlyOwnRows /\ Ended
    /\ log = << Event("create_db_and_tables", "call", ""),
                Event("create_course", "call", "") >>
    /\ db.rows["student"] = <<>>
    /\ db.rows["course"] = << Course(1, "math", JInt(1)), Course(2, "chinese", JInt(2)) >>

(* With create_student first on empty tables, the two courses are linked. *)
StudentsThenCourses ==
    (OnlyOwnRows /\ log = << Event("create_student", "call", ""),
                            Event("create_course", "call", "") >>) =>
        /\ db.rows["student"] = << Student(1, "liming", 18), Student(2, "zhangsan", 19) >>
        /\ db.rows["course"] = << Course(1, "math", JInt(1)), Course(2, "chinese", JInt(2)) >>


Accounts == db.rows["user_account"]

Spongebob(id) == User(id, "spongebob", JStr("Spongebob Squarepants"))

(* The create_user calls of this run whose scope has exited. *)
CreatedUsers ==
    Len(SelectSeq(log, LAMBDA e : e.by = "create_user" /\ e.phase = "commit"))

(* C26 as stated: in the Day07 synchronous lesson, after                   *)
(* create_db_and_tables followed by any k create_user calls the table      *)
(* holds exactly k rows, all named "spongebob", with pairwise distinct     *)
(* primary keys.                                                           *)
C26_ExactlyKRows ==
    (lesson = "D07_01" /\ pc = "idle" /\ Len(log) > 0
        /\ log[1] = Event("create_db_and_tables", "call", "")
        /\ HasTable(db, "user_account")) =>
        /\ Len(Accounts) = CreatedUsers
        /\ \A i \in 1..Len(Accounts) : Accounts[i].name = "spongebob"
        /\ \A i, j \in 1..Len(Accounts) : Accounts[i].id = Accounts[j].id => i = j

(* C26: each create_user call inserts exactly one user_account row, named  *)
(* "spongebob" and with a primary key no earlier row has, and commits it   *)
(* when its transactional scope exits: the table then holds one row more   *)
(* than before the call (k rows more after k calls, exactly k when it held *)
(* none before); a later query_users on a new connection prints every row  *)
(* of the table and a later query_uesr1 prints one named "spongebob".      *)
C26_OneRowPerCall ==
    [][/\ (Calling("D07_01", "create_user") /\ HasTable(db, "user_account")) =>
             /\ db'.rows = db.rows
             /\ Len(db'.pending) = 1
             /\ db'.pending[1].row = Spongebob(db'.pending[1].row.id)
             /\ \A i \in 1..Len(Accounts) : Accounts[i].id # db'.pending[1].row.id
             /\ out' = Append(out, [created |-> db'.pending[1].row.id])
       /\ (lesson = "D07_01" /\ pc = "create_user:exit") =>
             /\ db'.rows["user_account"] = Append(Accounts, db.pending[1].row)
             /\ db'.pending = <<>>
             /\ \A i, j \in 1..Len(Accounts) + 1 :
                   db'.rows["user_account"][i].id = db'.rows["user_account"][j].id => i = j
             /\ (Len(Accounts) = CreatedUsers) =>
                   /\ Len(db'.rows["user_account"]) = CreatedUsers + 1
                   /\ \A i \in 1..Len(Accounts) + 1 :
                         db'.rows["user_account"][i].name = "spongebob"
       /\ (Calling("D07_01", "query_users") /\ HasTable(db, "user_account")) =>
             /\ db' = db
             /\ SubSeq(out', Len(out) + 2, Len(out')) = Accounts
       /\ (Calling("D07_01", "query_uesr1") /\ HasTable(db, "user_account")
           /\ CreatedUsers > 0) =>
             /\ db' = db
             /\ out'[Len(out')] \in {Accounts[i] : i \in 1..Len(Accounts)}
             /\ out'[Len(out')].name = "spongebob"]_vars

C26_Witness ==
    /\ lesson = "D07_01" /\ mode = "import" /\ Ended
    /\ CreatedUsers = 2
    /\ Accounts = << Spongebob(1), Spongebob(2) >>
    /\ out = << [created |-> 1], [created |-> 2] >>


(* The value of short a request carries: false when the key is absent. *)
ShortValid == QueryHas(req.query, "short") => IsBoolLiteral(QueryGet(req.query, "short"))

ShortOf ==
    QueryHas(req.query, "short")
    /\ Lower(QueryGet(req.query, "short")) \in {"1", "true", "t", "yes", "y", "on"}

QGiven == QueryHas(req.query, "q") /\ QueryGet(req.query, "q") # ""

(* The keys q and description of the response at hand. *)
OptionalKeysOK ==
    /\ ("description" \in DOMAIN resp.body.f) <=> ~ShortOf
    /\ ("description" \in DOMAIN resp.body.f) => resp.body.f.description = Description
    /\ ("q" \in DOMAIN resp.body.f) <=> QGiven
    /\ ("q" \in DOMAIN resp.body.f) => resp.body.f.q = JStr(QueryGet(req.query, "q"))

(* The integers the item_id segments of the requests stand for. *)
SegmentInt(seg) ==
    CASE seg = "123" -> 123 [] seg = "-3" -> 0 - 3 [] seg = "1_0" -> 10 [] seg = " 7" -> 7

(* C27: for GET /items/{item_id} of Day02 lesson 6 and                     *)
(* GET /users/{user_id}/items/{item_id} of lesson 7 the response the       *)
(* handler returns has the key description exactly when short is false,    *)
(* the key q exactly when q is supplied and not empty, and always item_id: *)
(* an integer in lesson 6, the text together with the integer owner_id in  *)
(* lesson 7.  Requests with valid parameters get such a response.          *)
C27_OptionalKeys ==
    /\ (lesson = "D02_06" /\ Finished /\ ShortValid
           /\ req.path[2] \in {"123", "-3", "1_0", " 7"}) => Answered(200)
    /\ (lesson = "D02_06" /\ Finished /\ Answered(200)) =>
          /\ OptionalKeysOK
          /\ DOMAIN resp.body.f \subseteq {"item_id", "q", "description"}
          /\ resp.body.f.item_id = JInt(SegmentInt(req.path[2]))
          /\ req.query = << <<"q", "keyword">>, <<"short", "true">> >> =>
                resp.body = JObj([item_id |-> JInt(SegmentInt(req.path[2])),
                                  q |-> JStr("keyword")])
    /\ (lesson = "D02_07" /\ Finished /\ ShortValid /\ IsIntLiteral(req.path[2])) =>
          Answered(200)
    /\ (lesson = "D02_07" /\ Finished /\ Answered(200)) =>
          /\ OptionalKeysOK
          /\ DOMAIN resp.body.f \subseteq {"item_id", "owner_id", "q", "description"}
          /\ resp.body.f.item_id = JStr(req.path[4])
          /\ resp.body.f.owner_id = JInt(ParseInt(req.path[2]))

C27_Witness ==
    /\ lesson = "D02_06" /\ Finished /\ Answered(200)
    /\ req.path = <<"items", "123">>
    /\ req.query = << <<"q", "keyword">>, <<"short", "true">> >>
    /\ resp.body = JObj([item_id |-> JInt(123), q |-> JStr("keyword")])

ValidPrefix(id) == StartsWith(id, "isbn-") \/ StartsWith(id, "imdb-")

FixtureKeys == {"isbn-9781529046137", "imdb-tt0371724", "isbn-9781439512982"}

(* C29: in Day02 lesson 11 every response the read_items handler produces  *)
(* has an id that starts with "isbn-" or "imdb-"; a supplied id with a     *)
(* valid prefix that is not a key of the three-entry fixture mapping still *)
(* succeeds, with the response {"id": id, "name": null}.                   *)
C29_ValidIdInResponse ==
    (lesson = "D02_11" /\ Finished) =>
        /\ Len(HandlerEvents) > 0 =>
              /\ Answered(200)
              /\ DOMAIN resp.body.f = {"id", "name"}
              /\ ValidPrefix(resp.body.f.id.s)
        /\ (QueryHas(req.query, "id") /\ ValidPrefix(QueryGet(req.query, "id"))
               /\ QueryGet(req.query, "id") \notin FixtureKeys) =>
              /\ Answered(200)
              /\ HandlersRun = << "read_items" >>
              /\ resp.body = JObj([id |-> JStr(QueryGet(req.query, "id")), name |-> JNull])

C29_Witness ==
    /\ lesson = "D02_11" /\ Finished /\ Answered(200)
    /\ req.query = << <<"id", "isbn-0">> >>
    /\ resp.body = JObj([id |-> JStr("isbn-0"), name |-> JNull])


(* The handler runs recorded so far, over all requests. *)
HandlerRuns == SelectSeq(log, LAMBDA e : e.phase = "handler")

(* C30: request handling never modifies the module level fixtures: after   *)
(* any sequence of requests to the Day02 lesson 5 routes fake_items_db     *)
(* still holds Foo, Bar, Baz in that order, and after any sequence of      *)
(* requests to the Day02 lesson 11 route data still holds its three        *)
(* entries; the response to a request is therefore determined by the       *)
(* request alone, whatever was asked before (the draw for an absent id     *)
(* aside).                                                                 *)
C30_FixturesUnchanged ==
    /\ (lesson = "D02_05" /\ app.state = "ready") =>
          /\ globals.fake_items_db =
                << JObj([item_name |-> JStr("Foo")]), JObj([item_name |-> JStr("Bar")]),
                   JObj([item_name |-> JStr("Baz")]) >>
          /\ (Finished /\ req.path = <<"items", "">>
                 /\ QueryIntOK("skip") /\ QueryIntOK("limit")) =>
                ItemNames(resp.body) = SliceNames
          /\ (CorrectRequest /\ ~QGiven) => ItemNames(resp.body.f.items) = SliceNames
    /\ (lesson = "D02_11" /\ app.state = "ready") =>
          /\ Len(globals.data) = 3
          /\ {globals.data[i][1] : i \in 1..3} = FixtureKeys
          /\ globals.data[1][2] = "The Hitchhiker's Guide to the Galaxy"
          /\ globals.data[2][2] = "The Hitchhiker's Guide to the Galaxy"
          /\ globals.data[3][2] = "Isaac Asimov: The Complete Stories, Vol. 2"
          /\ (Finished /\ QueryHas(req.query, "id")
                 /\ QueryGet(req.query, "id") \in FixtureKeys) =>
                resp.body.f.name =
                   JStr(IF QueryGet(req.query, "id") = "isbn-9781439512982"
                        THEN "Isaac Asimov: The Complete Stories, Vol. 2"
                        ELSE "The Hitchhiker's Guide to the Galaxy")

C30_Witness ==
    /\ lesson = "D02_05" /\ Finished /\ nreq = 2
    /\ Len(HandlerRuns) = 2
    /\ HandlerRuns[1].by = "read_items"
    /\ req.path = <<"items", "">> /\ req.query = <<>>
    /\ ItemNames(resp.body) = <<"Foo", "Bar", "Baz">>
    /\ globals.fake_items_db = fake_items_db

====
